---- MODULE Spec2Model ----
(***************************************************************************)
(* Model of the jam recorder (src/src/recorder/jamrecorder.cpp):            *)
(* CJamClient (one open WAV file), CJamSession (slot table, finalized      *)
(* connections, frame counter, just-disconnected marker) and CJamRecorder  *)
(* (zero-or-one session, event handlers, project exports).                 *)
(*                                                                         *)
(* A null pointer is the empty sequence <<>>, a non-null one is <<obj>>.   *)
(* A file name is a record [stem, affix, ext]: stem is the sequence of the  *)
(* "-"-separated fields before the affix, affix 0 is "", affix k is "_k".  *)
(***************************************************************************)
EXTENDS Integers, Sequences, FiniteSets, TLC

VARIABLES
    isRecording,      \* CJamRecorder::isRecording
    currentSession,   \* CJamRecorder::currentSession (<<>> is nullptr)
    fs,               \* the recording base directory: session dir -> files
    now,              \* the last reading of the UTC clock, in milliseconds
    status,           \* "running", "segv", "exception", "quit"
    emitted,          \* the RecordingSessionStarted signals emitted so far
    nSessions,        \* sessions constructed so far (history)
    nFrames,          \* frame events handled so far (history)
    nFaults,          \* file operations that failed so far (history)
    ended,            \* the session finalized by the last OnEnd body (history)
    exportLog,        \* what each exporter did in the last OnEnd body (history)
    lastOp,           \* the last handler, when a session handled it (history)
    afterDisc,        \* monitor of the frames that follow a disconnect (history)
    e2e,              \* monitor of the end-to-end scenario (history)
    queue,            \* the recorder thread's event queue: posted slot calls
    running,          \* the slot calls in progress, each with its thread
    began,            \* the ids of the slot calls begun so far, in order (history)
    offline,          \* the last call of SessionDirToReaper and its outcome (history)
    wave              \* one recording with the samples of its file, one by one

vars == <<isRecording, currentSession, fs, now, status, emitted,
          nSessions, nFrames, nFaults, ended, exportLog, lastOp, afterDisc, e2e,
          queue, running, began, offline, wave>>

\* The recorder and its files.
recvars == <<isRecording, currentSession, fs, now, status, emitted,
             nSessions, nFrames, nFaults, ended, exportLog, lastOp, afterDisc, e2e>>

\* The delivery of the server's signals to the recorder's slots.
qvars == <<queue, running, began>>

----------------------------------------------------------------------------
(* Bounds of the model *)

MAX_NUM_CHANNELS == 2 \* size of the slot table (the channel id space) in the model
MaxFrames == 3        \* frame events handled in one run
MaxSessions == 2      \* sessions constructed in one run
MaxClock == 1         \* the last millisecond of the clock in one run
MaxFaults == 1        \* failing file operations in one run
MaxEvents == 4        \* signals the server emits in one run of the delivery model
MaxConversions == 2   \* calls of SessionDirToReaper in one run of the conversion model
MaxLiveFrames == 1    \* frame events handled in one run of the conversion model
MaxFed == 2           \* frames fed to the recording in one run of the sample model
MaxFrameSize == 2     \* the largest frame size, in samples, of the sample model

(* Program constants *)

iServerFrameSizeSamples == 128
SampleRate == 48000

ChanIds == 0 .. (MAX_NUM_CHANNELS - 1)
NameOrder == <<"Alice", "Bob">>          \* display names, in QString order
Names == {NameOrder[i] : i \in 1 .. Len(NameOrder)}
Addresses == { [InetAddr |-> 1, iPort |-> 1],
               [InetAddr |-> 1, iPort |-> 2],
               [InetAddr |-> 2, iPort |-> 1] }
AudioChannelCounts == 0 .. 2

\* The parameters a frame event carries besides its channel id: a client's
\* usual name, address and channel count, or these with one of them changed.
BaseParams == [name |-> "Alice", addr |-> [InetAddr |-> 1, iPort |-> 1], nch |-> 2]
FrameParams ==
    {[BaseParams EXCEPT !.name = n] : n \in Names}
    \cup {[BaseParams EXCEPT !.addr = a] : a \in Addresses}
    \cup {[BaseParams EXCEPT !.nch = k] : k \in AudioChannelCounts}

Null == <<>>
Some(x) == <<x>>
EmptyFn == [x \in {} |-> x]

----------------------------------------------------------------------------
(* File names and the directory *)

FileName(stem, affix, ext) == [stem |-> stem, affix |-> affix, ext |-> ext]

Exists(files, f) == f \in DOMAIN files

WavFile(sid) == [kind |-> "wav", by |-> sid, samples |-> 0, finalised |-> FALSE, text |-> <<>>]

TextFile(kind, sid, text) ==
    [kind |-> kind, by |-> sid, samples |-> 0, finalised |-> TRUE, text |-> text]

----------------------------------------------------------------------------
(* CJamClient *)

\* The accessor ClientName() of the header: the stored display name.
ClientName(client) == client.name

\* The while loop of the constructor: the first affix, counting up from
\* `affix`, for which stem + affix + ".wav" does not exist in the directory.
RECURSIVE UniqueAffix(_, _, _)
NoAffix(files, stem, affix) == affix
UniqueAffix(files, stem, affix) ==
    IF Exists(files, FileName(stem, affix, "wav"))
    THEN UniqueAffix(files, stem, affix + 1)
    ELSE affix

\* A variant of CJamClient that starts the recording one frame late.
CJamClientStartsLate(frame, _numChannels, name, address, files, sid) ==
    LET stem == <<name, frame, _numChannels>>
        fileName == FileName(stem, UniqueAffix(files, stem, 0), "wav")
    IN  [ client |-> [ startFrame  |-> frame + 1,
                       numChannels |-> _numChannels % 65536,
                       name        |-> name,
                       address     |-> address,
                       frameCount  |-> 0,
                       filename    |-> fileName ],
          files  |-> [f \in (DOMAIN files) \cup {fileName} |->
                         IF f = fileName THEN WavFile(sid) ELSE files[f]] ]

\* A variant of CJamClient that starts every recording at frame 0.
CJamClientStartsAtZero(frame, _numChannels, name, address, files, sid) ==
    LET stem == <<name, 0, _numChannels>>
        fileName == FileName(stem, UniqueAffix(files, stem, 0), "wav")
    IN  [ client |-> [ startFrame  |-> 0,
                       numChannels |-> _numChannels % 65536,
                       name        |-> name,
                       address     |-> address,
                       frameCount  |-> 0,
                       filename    |-> fileName ],
          files  |-> [f \in (DOMAIN files) \cup {fileName} |->
                         IF f = fileName THEN WavFile(sid) ELSE files[f]] ]

\* CJamClient::CJamClient with a file that opens. QFile::open (ReadWrite) creates
\* the file when it is absent and keeps the bytes of a file that is there; the
\* wave stream then writes its header from position 0 of the file.
CJamClient(frame, _numChannels, name, address, files, sid) ==
    LET stem == <<name, frame, _numChannels>>
        fileName == FileName(stem, UniqueAffix(files, stem, 0), "wav")
    IN  [ client |-> [ startFrame  |-> frame,
                       numChannels |-> _numChannels % 65536,
                       name        |-> name,
                       address     |-> address,
                       frameCount  |-> 0,
                       filename    |-> fileName ],
          files  |-> [f \in (DOMAIN files) \cup {fileName} |->
                         IF f = fileName THEN WavFile(sid) ELSE files[f]] ]

\* CJamClient::Frame
ClientFrame(client, files, _name) ==
    [ client |-> [client EXCEPT !.name = _name, !.frameCount = @ + 1],
      files  |-> [files EXCEPT ![client.filename].samples =
                                   @ + client.numChannels * iServerFrameSizeSamples] ]

\* CJamClient::Disconnect
ClientDisconnect(client, files) ==
    [files EXCEPT ![client.filename].finalised = TRUE]

----------------------------------------------------------------------------
(* CJamSession *)

\* The session directory "Jam-<timestamp>" for a session constructed at t.
SessionDirAt(t) == <<"Jam", t>>

\* A variant of NewSession whose marker names channel 0 from the start.
NewSessionMarked(dir, sid) ==
    [ sessionDir           |-> dir,
      currentFrame         |-> 0,
      chIdDisconnected     |-> 0,
      vecptrJamClients     |-> [c \in ChanIds |-> Null],
      jamClientConnections |-> <<>>,
      sid                  |-> sid,
      nDisconnect          |-> [c \in ChanIds |-> 0],
      nDropped             |-> [c \in ChanIds |-> 0] ]

NewSession(dir, sid) ==
    [ sessionDir           |-> dir,
      currentFrame         |-> 0,
      chIdDisconnected     |-> -1,
      vecptrJamClients     |-> [c \in ChanIds |-> Null],
      jamClientConnections |-> <<>>,
      sid                  |-> sid,                       \* history
      nDisconnect          |-> [c \in ChanIds |-> 0],     \* history
      nDropped             |-> [c \in ChanIds |-> 0] ]    \* history

\* A variant of CJamClientConnection with start frame and length exchanged.
CJamClientConnectionSwapped(client) ==
    [ numChannels |-> client.numChannels,
      startFrame  |-> client.frameCount,
      length      |-> client.startFrame,
      name        |-> ClientName(client),
      fileName    |-> client.filename ]

CJamClientConnection(client) ==
    [ numChannels |-> client.numChannels,
      startFrame  |-> client.startFrame,
      length      |-> client.frameCount,
      name        |-> ClientName(client),
      fileName    |-> client.filename ]

\* A variant of DisconnectClient that leaves the finalized recording in its
\* slot.
DisconnectClientKeepsSlot(S, files, iChID) ==
    IF S.vecptrJamClients[iChID] = Null
    THEN [ segv |-> TRUE, S |-> S, files |-> files ]
    ELSE [ segv  |-> FALSE,
           S     |-> [S EXCEPT !.jamClientConnections =
                                   Append(@, CJamClientConnection(S.vecptrJamClients[iChID][1])),
                               !.chIdDisconnected = iChID,
                               !.nDisconnect[iChID] = @ + 1],
           files |-> ClientDisconnect(S.vecptrJamClients[iChID][1], files) ]

\* A variant of DisconnectClient that puts the connection at the head of the
\* list.
DisconnectClientPrepends(S, files, iChID) ==
    IF S.vecptrJamClients[iChID] = Null
    THEN [ segv |-> TRUE, S |-> S, files |-> files ]
    ELSE [ segv  |-> FALSE,
           S     |-> [S EXCEPT !.jamClientConnections =
                                   <<CJamClientConnection(S.vecptrJamClients[iChID][1])>> \o @,
                               !.vecptrJamClients[iChID] = Null,
                               !.chIdDisconnected = iChID,
                               !.nDisconnect[iChID] = @ + 1],
           files |-> ClientDisconnect(S.vecptrJamClients[iChID][1], files) ]

\* A variant of DisconnectClient that appends the connection twice.
DisconnectClientTwice(S, files, iChID) ==
    IF S.vecptrJamClients[iChID] = Null
    THEN [ segv |-> TRUE, S |-> S, files |-> files ]
    ELSE [ segv  |-> FALSE,
           S     |-> [S EXCEPT !.jamClientConnections =
                                   Append(Append(@, CJamClientConnection(S.vecptrJamClients[iChID][1])),
                                          CJamClientConnection(S.vecptrJamClients[iChID][1])),
                               !.vecptrJamClients[iChID] = Null,
                               !.chIdDisconnected = iChID,
                               !.nDisconnect[iChID] = @ + 1],
           files |-> ClientDisconnect(S.vecptrJamClients[iChID][1], files) ]

\* A variant of DisconnectClient that empties every slot.
DisconnectClientClearsAll(S, files, iChID) ==
    IF S.vecptrJamClients[iChID] = Null
    THEN [ segv |-> TRUE, S |-> S, files |-> files ]
    ELSE [ segv  |-> FALSE,
           S     |-> [S EXCEPT !.jamClientConnections =
                                   Append(@, CJamClientConnection(S.vecptrJamClients[iChID][1])),
                               !.vecptrJamClients = [c \in ChanIds |-> Null],
                               !.chIdDisconnected = iChID,
                               !.nDisconnect[iChID] = @ + 1],
           files |-> ClientDisconnect(S.vecptrJamClients[iChID][1], files) ]

\* A variant of DisconnectClient that does not record the channel in
\* chIdDisconnected.
DisconnectClientNoMarker(S, files, iChID) ==
    IF S.vecptrJamClients[iChID] = Null
    THEN [ segv |-> TRUE, S |-> S, files |-> files ]
    ELSE LET client == S.vecptrJamClients[iChID][1]
         IN  [ segv  |-> FALSE,
               S     |-> [S EXCEPT !.jamClientConnections =
                                       Append(@, CJamClientConnection(client)),
                                   !.vecptrJamClients[iChID] = Null,
                                   !.nDisconnect[iChID] = @ + 1],
               files |-> ClientDisconnect(client, files) ]

\* CJamSession::DisconnectClient. The slot pointer is dereferenced unchecked:
\* on an empty slot the call reads through nullptr and the process dies with
\* a segmentation fault before it has changed anything (segv).
DisconnectClient(S, files, iChID) ==
    IF S.vecptrJamClients[iChID] = Null
    THEN [ segv |-> TRUE, S |-> S, files |-> files ]
    ELSE LET client == S.vecptrJamClients[iChID][1]
         IN  [ segv  |-> FALSE,
               S     |-> [S EXCEPT !.jamClientConnections =
                                       Append(@, CJamClientConnection(client)),
                                   !.vecptrJamClients[iChID] = Null,
                                   !.chIdDisconnected = iChID,
                                   !.nDisconnect[iChID] = @ + 1],
               files |-> ClientDisconnect(client, files) ]

\* A variant of IsStale that takes a frame for any channel as too late while
\* the marker is set.
IsStaleAnyChannel(S, iChID) == S.chIdDisconnected # -1

\* The test at the head of CJamSession::Frame: the frame is "too late".
IsStale(S, iChID) == iChID = S.chIdDisconnected

\* A variant of MarkerAfterDrop that leaves the marker as it was.
MarkerKept(S) == S.chIdDisconnected

\* The marker after a stale frame was dropped.
MarkerAfterDrop(S) == -1

\* A variant of IdentityChanged that does not compare the channel counts.
IdentityChangedAddressOnly(client, address, numAudioChannels) ==
    \/ address.InetAddr # client.address.InetAddr
    \/ address.iPort # client.address.iPort

\* The parameter-change test of CJamSession::Frame on an occupied slot.
IdentityChanged(client, address, numAudioChannels) ==
    \/ numAudioChannels # client.numChannels
    \/ address.InetAddr # client.address.InetAddr
    \/ address.iPort # client.address.iPort

\* A variant of FeedFrame that steps currentFrame by the recording's frame
\* count instead of by one.
FeedFrameAddsCount(S, files, iChID, name) ==
    LET fed == ClientFrame(S.vecptrJamClients[iChID][1], files, name)
        S1  == [S EXCEPT !.vecptrJamClients[iChID] = Some(fed.client)]
    IN  [ S     |-> IF fed.client.startFrame + fed.client.frameCount > S1.currentFrame
                    THEN [S1 EXCEPT !.currentFrame = @ + fed.client.frameCount]
                    ELSE S1,
          files |-> fed.files ]

\* A variant of FeedFrame that never steps currentFrame.
FeedFrameNoStep(S, files, iChID, name) ==
    LET fed == ClientFrame(S.vecptrJamClients[iChID][1], files, name)
    IN  [ S     |-> [S EXCEPT !.vecptrJamClients[iChID] = Some(fed.client)],
          files |-> fed.files ]

\* The tail of CJamSession::Frame: feed the frame to the recording in the
\* slot, then step currentFrame when that recording has stepped past it.
FeedFrame(S, files, iChID, name) ==
    LET fed == ClientFrame(S.vecptrJamClients[iChID][1], files, name)
        S1  == [S EXCEPT !.vecptrJamClients[iChID] = Some(fed.client)]
    IN  [ S     |-> IF fed.client.startFrame + fed.client.frameCount > S1.currentFrame
                    THEN [S1 EXCEPT !.currentFrame = @ + 1]
                    ELSE S1,
          files |-> fed.files ]

\* A variant of OpenFailed that has stepped the frame counter.
OpenFailedCounts(S, files) ==
    [ res |-> "threw", S |-> [S EXCEPT !.currentFrame = @ + 1], files |-> files ]

\* "vecptrJamClients[iChID] = new CJamClient (...)" when the constructor
\* throws because the file cannot be opened: the assignment is not made and
\* the call of Frame is left with the session S and the directory as they are.
OpenFailed(S, files) ==
    [ res |-> "threw", S |-> S, files |-> files ]

\* CJamSession::Frame. wavOk says whether a WAV file opened by this call can
\* be opened; when it cannot the constructor throws and the call is left at
\* that point. res names the path taken.
Frame(S, files, iChID, name, address, numAudioChannels, wavOk) ==
    IF IsStale(S, iChID)
    THEN [ res   |-> "stale",
           S     |-> [S EXCEPT !.chIdDisconnected = MarkerAfterDrop(S),
                               !.nDropped[iChID] = @ + 1],
           files |-> files ]
    ELSE IF S.vecptrJamClients[iChID] = Null
    THEN IF ~wavOk
         THEN OpenFailed(S, files)
         ELSE LET made == CJamClient(S.currentFrame, numAudioChannels, name, address,
                                     files, S.sid)
                  S1   == [S EXCEPT !.vecptrJamClients[iChID] = Some(made.client)]
                  fed  == FeedFrame(S1, made.files, iChID, name)
              IN  [ res |-> "opened", S |-> fed.S, files |-> fed.files ]
    ELSE IF IdentityChanged(S.vecptrJamClients[iChID][1], address, numAudioChannels)
    THEN LET disc == DisconnectClient(S, files, iChID)
         IN  IF numAudioChannels = 0
             THEN [ res |-> "closed", S |-> disc.S, files |-> disc.files ]
             ELSE IF ~wavOk
             THEN OpenFailed(disc.S, disc.files)
             ELSE LET made == CJamClient(disc.S.currentFrame, numAudioChannels, name,
                                         address, disc.files, S.sid)
                      S1   == [disc.S EXCEPT !.vecptrJamClients[iChID] = Some(made.client)]
                      fed  == FeedFrame(S1, made.files, iChID, name)
                  IN  [ res |-> "reopened", S |-> fed.S, files |-> fed.files ]
    ELSE LET fed == FeedFrame(S, files, iChID, name)
         IN  [ res |-> "appended", S |-> fed.S, files |-> fed.files ]

\* A variant of End that finalizes no recording.
EndNothing(S, files, iChID) == [S |-> S, files |-> files]

\* A variant of End that stops after slot 0.
EndFirstOnly(S, files, iChID) ==
    IF S.vecptrJamClients[0] # Null
    THEN [ S     |-> DisconnectClient(S, files, 0).S,
           files |-> DisconnectClient(S, files, 0).files ]
    ELSE [ S |-> S, files |-> files ]

\* CJamSession::End: the loop over the slots, from slot iChID on.
RECURSIVE End(_, _, _)
End(S, files, iChID) ==
    IF iChID >= MAX_NUM_CHANNELS
    THEN [ S |-> S, files |-> files ]
    ELSE IF S.vecptrJamClients[iChID] # Null
    THEN LET disc == DisconnectClient(S, files, iChID)
         IN  End(disc.S, disc.files, iChID + 1)
    ELSE End(S, files, iChID + 1)

\* STrackItem
STrackItem(numAudioChannels, startFrame, frameCount, fileName) ==
    [ numAudioChannels |-> numAudioChannels,
      startFrame       |-> startFrame,
      frameCount       |-> frameCount,
      fileName         |-> fileName ]

\* A variant of TracksLoop that keeps, for each name, only the connection
\* finalized last.
TracksLatestOnly(conns, i, tracks) ==
    [k \in {conns[j].name : j \in 1 .. Len(conns)} |->
        LET last == CHOOSE j \in 1 .. Len(conns) :
                       /\ conns[j].name = k
                       /\ \A h \in 1 .. Len(conns) : conns[h].name = k => h <= j
        IN  << STrackItem(conns[last].numChannels, conns[last].startFrame,
                          conns[last].length, conns[last].fileName) >>]

\* CJamSession::Tracks: the loop over the finalized connections, from the
\* i-th on, into the map (a function from its keys to the item lists).
RECURSIVE TracksLoop(_, _, _)
TracksLoop(conns, i, tracks) ==
    IF i > Len(conns)
    THEN tracks
    ELSE LET track == STrackItem(conns[i].numChannels, conns[i].startFrame,
                                 conns[i].length, conns[i].fileName)
             key   == conns[i].name
             t1    == IF key \in DOMAIN tracks THEN tracks ELSE tracks @@ (key :> <<>>)
         IN  TracksLoop(conns, i + 1, [t1 EXCEPT ![key] = Append(@, track)])

Tracks(S) == TracksLoop(S.jamClientConnections, 1, EmptyFn)

\* QMap::keys(): the keys in ascending order.
RECURSIVE KeysFrom(_, _)
KeysFrom(tracks, i) ==
    IF i > Len(NameOrder)
    THEN <<>>
    ELSE (IF NameOrder[i] \in DOMAIN tracks THEN <<NameOrder[i]>> ELSE <<>>)
         \o KeysFrom(tracks, i + 1)

Keys(tracks) == KeysFrom(tracks, 1)

\* QFileInfo::size() of a recording file: the bytes of its 16-bit samples.
FileSize(file) == file.samples * 2

\* QDir::entryList ({"*.pcm"}): the names with extension pcm, in name order.
PcmEntries(files) == {f \in DOMAIN files : f.ext = "pcm"}

NameRank(n) == CHOOSE i \in 1 .. Len(NameOrder) : NameOrder[i] = n

EntryKey(f) ==
    (((NameRank(f.stem[1]) * 100 + f.stem[2]) * 100 + f.stem[3]) * 100 + f.stem[4]) * 100
    + f.affix

RECURSIVE EntryList(_)
EntryList(entries) ==
    IF entries = {}
    THEN <<>>
    ELSE LET first == CHOOSE f \in entries : \A g \in entries : EntryKey(f) <= EntryKey(g)
         IN  <<first>> \o EntryList(entries \ {first})

\* CJamSession::TracksFromSessionDir: the loop over the directory entries.
\* split[0..3] are the "-"-separated fields of the name before the extension,
\* and the part of the last one before "_" is the channel count.
RECURSIVE TracksFromEntries(_, _, _, _)
TracksFromEntries(files, entries, i, tracks) ==
    IF i > Len(entries)
    THEN tracks
    ELSE LET entry       == entries[i]
             name        == entry.stem[1]
             hostPort    == entry.stem[2]
             frame       == entry.stem[3]
             numChannels == entry.stem[4]
             trackName   == <<name, hostPort>>
             t1          == IF trackName \in DOMAIN tracks
                            THEN tracks ELSE tracks @@ (trackName :> <<>>)
             length      == (FileSize(files[entry]) \div numChannels)
                                \div iServerFrameSizeSamples
             track       == STrackItem(numChannels, frame, length, entry)
         IN  TracksFromEntries(files, entries, i + 1,
                               [t1 EXCEPT ![trackName] = Append(@, track)])

TracksFromSessionDir(files) ==
    TracksFromEntries(files, EntryList(PcmEntries(files)), 1, EmptyFn)

----------------------------------------------------------------------------
(* Project exports *)

\* secondsAt48K: the offset of a frame in seconds, as the fraction num / den.
secondsAt48K(frames, frameSize) == [num |-> frames * frameSize, den |-> SampleRate]

\* CReaperProject::toString: one track per key, in key order, listing its
\* segments with file, offset and length.
RECURSIVE ReaperTracks(_, _, _)
ReaperTracks(tracks, keys, i) ==
    IF i > Len(keys)
    THEN <<>>
    ELSE << [ track |-> keys[i],
              items |-> [j \in 1 .. Len(tracks[keys[i]]) |->
                           [ file   |-> tracks[keys[i]][j].fileName,
                             offset |-> secondsAt48K(tracks[keys[i]][j].startFrame,
                                                     iServerFrameSizeSamples),
                             length |-> secondsAt48K(tracks[keys[i]][j].frameCount,
                                                     iServerFrameSizeSamples) ]] ] >>
         \o ReaperTracks(tracks, keys, i + 1)

CReaperProject(tracks) == ReaperTracks(tracks, Keys(tracks), 1)

\* A variant of LofLines that writes the first segment of each track only.
LofLinesFirstOnly(tracks, keys, i) ==
    [j \in 1 .. Len(keys) |->
        [ file   |-> tracks[keys[j]][1].fileName,
          offset |-> secondsAt48K(tracks[keys[j]][1].startFrame,
                                  iServerFrameSizeSamples) ]]

\* The lines AudacityLofFromCurrentSession writes: for each key in key order,
\* for each item of that track, file "<name>" offset <seconds>.
RECURSIVE LofLines(_, _, _)
LofLines(tracks, keys, i) ==
    IF i > Len(keys)
    THEN <<>>
    ELSE [j \in 1 .. Len(tracks[keys[i]]) |->
             [ file   |-> tracks[keys[i]][j].fileName,
               offset |-> secondsAt48K(tracks[keys[i]][j].startFrame,
                                       iServerFrameSizeSamples) ]]
         \o LofLines(tracks, keys, i + 1)

\* CJamSession::Name(): the base name of the session directory.
SessionName(S) == S.sessionDir

\* A variant of ExportFile that writes the target whether or not it exists.
ExportFileOverwrites(S, files, ext, text, openOk) ==
    LET target == FileName(SessionName(S), 0, ext)
    IN  IF openOk
        THEN [ files |-> [f \in (DOMAIN files) \cup {target} |->
                             IF f = target THEN TextFile(ext, S.sid, text) ELSE files[f]],
               did   |-> "written", warn |-> {} ]
        ELSE [ files |-> files, did |-> "open_failed", warn |-> {<<ext, "open_failed">>} ]

\* One exporter: the target exists (warning, nothing written), or it is
\* created and written, or it cannot be created (warning, nothing written).
\* Returns the directory, the outcome and the warnings.
ExportFile(S, files, ext, text, openOk) ==
    LET target == FileName(SessionName(S), 0, ext)
    IN  IF Exists(files, target)
        THEN [ files |-> files, did |-> "exists", warn |-> {<<ext, "exists">>} ]
        ELSE IF openOk
        THEN [ files |-> files @@ (target :> TextFile(ext, S.sid, text)),
               did   |-> "written", warn |-> {} ]
        ELSE [ files |-> files, did |-> "open_failed", warn |-> {<<ext, "open_failed">>} ]

\* CJamRecorder::ReaperProjectFromCurrentSession
ReaperProjectFromCurrentSession(S, files, openOk) ==
    ExportFile(S, files, "rpp", CReaperProject(Tracks(S)), openOk)

\* CJamRecorder::AudacityLofFromCurrentSession
AudacityLofFromCurrentSession(S, files, openOk) ==
    ExportFile(S, files, "lof", LofLines(Tracks(S), Keys(Tracks(S)), 1), openOk)

----------------------------------------------------------------------------
(* CJamRecorder. The handlers are functions of the recorder state R, a      *)
(* record of the variables a handler reads and writes, plus res, the path   *)
(* the handler took. The inputs rppOk, lofOk, wavOk and dirFault are the     *)
(* file system's answers to the handler's attempts to create a file or the  *)
(* session directory.                                                       *)

DirFaults == {"ok", "mkpath", "notdir", "readonly"}

\* A variant of RunExporters that gives up after a first exporter that wrote
\* nothing.
RunExportersStopping(S, files, rppOk, lofOk) ==
    LET rpp == ReaperProjectFromCurrentSession(S, files, rppOk)
        lof == IF rpp.did = "written"
               THEN AudacityLofFromCurrentSession(S, rpp.files, lofOk)
               ELSE [ files |-> rpp.files, did |-> "none", warn |-> {} ]
    IN  [ files |-> lof.files, rpp |-> rpp.did, lof |-> lof.did,
          warn  |-> rpp.warn \cup lof.warn ]

\* The two exporters as CJamRecorder::OnEnd runs them, one after the other.
RunExporters(S, files, rppOk, lofOk) ==
    LET rpp == ReaperProjectFromCurrentSession(S, files, rppOk)
        lof == AudacityLofFromCurrentSession(S, rpp.files, lofOk)
    IN  [ files |-> lof.files, rpp |-> rpp.did, lof |-> lof.did,
          warn  |-> rpp.warn \cup lof.warn ]

\* The body of CJamRecorder::OnEnd while recording: fin is the session and
\* its directory after currentSession->End (), rppOk and lofOk the answers to
\* the exporters' attempts to create their files.
EndSession(fin, rppOk, lofOk) ==
    [ S |-> fin.S, exp |-> RunExporters(fin.S, fin.files, rppOk, lofOk) ]

\* A variant of SessionEnded that keeps the pointer to the ended session.
SessionEndedKeepsSession(R, done) ==
    [R EXCEPT !.isRecording = FALSE,
              !.currentSession = Some(done.S),
              !.fs[done.S.sessionDir] = done.exp.files,
              !.warned = @ \cup done.exp.warn,
              !.ended = Some([ sid    |-> done.S.sid,
                               dir    |-> done.S.sessionDir,
                               conns  |-> done.S.jamClientConnections,
                               tracks |-> Tracks(done.S),
                               active |-> {c \in ChanIds :
                                             R.currentSession[1].vecptrJamClients[c] # Null} ]),
              !.exportLog = [sid |-> done.S.sid, rpp |-> done.exp.rpp, lof |-> done.exp.lof],
              !.res = "ended"]

\* The recorder after the body of CJamRecorder::OnEnd: done is the ended
\* session and what the exporters did.
SessionEnded(R, done) ==
    [R EXCEPT !.isRecording = FALSE,
              !.currentSession = Null,
              !.fs[done.S.sessionDir] = done.exp.files,
              !.warned = @ \cup done.exp.warn,
              !.ended = Some([ sid    |-> done.S.sid,
                               dir    |-> done.S.sessionDir,
                               conns  |-> done.S.jamClientConnections,
                               tracks |-> Tracks(done.S),
                               active |-> {c \in ChanIds :
                                             R.currentSession[1].vecptrJamClients[c] # Null} ]),
              !.exportLog = [sid |-> done.S.sid, rpp |-> done.exp.rpp, lof |-> done.exp.lof],
              !.res = "ended"]

\* CJamRecorder::OnEnd
OnEnd(R, rppOk, lofOk) ==
    IF ~R.isRecording
    THEN [R EXCEPT !.res = "idle"]
    ELSE SessionEnded(R, EndSession(End(R.currentSession[1],
                                        R.fs[R.currentSession[1].sessionDir], 0),
                                    rppOk, lofOk))

\* CJamSession::CJamSession: the directory checks. The path is created when
\* absent; the constructor throws when it could not be created, is no
\* directory, or is not writable.
SessionDirChecks(dirs, dir, dirFault) ==
    [ threw |-> dirFault # "ok",
      fs    |-> IF dir \in DOMAIN dirs \/ dirFault \in {"mkpath", "notdir"}
                THEN dirs
                ELSE dirs @@ (dir :> EmptyFn) ]

\* A variant of StartSession that sets isRecording before it constructs the
\* session.
StartSessionFlagFirst(R1, t, dirFault) ==
    LET dir  == SessionDirAt(t)
        made == SessionDirChecks(R1.fs, dir, dirFault)
    IN  IF made.threw
        THEN [R1 EXCEPT !.fs = made.fs, !.isRecording = TRUE,
                        !.status = "exception", !.res = "threw"]
        ELSE [R1 EXCEPT !.fs = made.fs,
                        !.currentSession = Some(NewSession(dir, R1.nSessions + 1)),
                        !.nSessions = @ + 1,
                        !.isRecording = TRUE,
                        !.emitted = Append(@, dir),
                        !.res = "started"]

\* CJamRecorder::Start after its call of OnEnd (), which left the recorder R1:
\* the session is constructed at clock reading t.
StartSession(R1, t, dirFault) ==
    LET dir  == SessionDirAt(t)
        made == SessionDirChecks(R1.fs, dir, dirFault)
    IN  IF made.threw
        THEN [R1 EXCEPT !.fs = made.fs, !.status = "exception", !.res = "threw"]
        ELSE [R1 EXCEPT !.fs = made.fs,
                        !.currentSession = Some(NewSession(dir, R1.nSessions + 1)),
                        !.nSessions = @ + 1,
                        !.isRecording = TRUE,
                        !.emitted = Append(@, dir),
                        !.res = "started"]

\* A variant of Start that constructs the new session without ending the
\* one it has.
StartWithoutEnd(R, t, rppOk, lofOk, dirFault) ==
    StartSession(R, t, dirFault)

\* CJamRecorder::Start
Start(R, t, rppOk, lofOk, dirFault) ==
    StartSession(OnEnd(R, rppOk, lofOk), t, dirFault)

\* A variant of OnTriggerSession that calls Start whether or not it is
\* recording.
TriggerAlwaysStarts(R, t, rppOk, lofOk, dirFault) ==
    Start(R, t, rppOk, lofOk, dirFault)

\* CJamRecorder::OnTriggerSession
OnTriggerSession(R, t, rppOk, lofOk, dirFault) ==
    IF R.isRecording
    THEN Start(R, t, rppOk, lofOk, dirFault)
    ELSE [R EXCEPT !.res = "idle"]

\* A variant of OnAboutToQuit that asks the thread to exit without calling
\* OnEnd.
QuitWithoutEnd(R, rppOk, lofOk) ==
    [R EXCEPT !.status = "quit", !.res = "idle"]

\* CJamRecorder::OnAboutToQuit
OnAboutToQuit(R, rppOk, lofOk) ==
    [OnEnd(R, rppOk, lofOk) EXCEPT !.status = "quit"]

\* The recorder after a segmentation fault: the process is gone and with it
\* the session it held in memory; the files stay as they were written.
Crashed(R) ==
    [R EXCEPT !.status = "segv", !.isRecording = FALSE, !.currentSession = Null,
              !.res = "segv"]

\* A variant of OnDisconnected that never calls the session.
OnDisconnectedIgnores(R, iChID) ==
    [R EXCEPT !.warned = @ \cup {<<"disconnected", "no currentSession">>},
              !.res = "nosession"]

\* CJamRecorder::OnDisconnected
OnDisconnected(R, iChID) ==
    LET R1 == IF ~R.isRecording
              THEN [R EXCEPT !.warned = @ \cup {<<"disconnected", "not recording">>}]
              ELSE R
    IN  IF R1.currentSession = Null
        THEN [R1 EXCEPT !.warned = @ \cup {<<"disconnected", "no currentSession">>},
                        !.res = "nosession"]
        ELSE LET S    == R1.currentSession[1]
                 disc == DisconnectClient(S, R1.fs[S.sessionDir], iChID)
             IN  IF disc.segv
                 THEN Crashed(R1)
                 ELSE [R1 EXCEPT !.currentSession = Some(disc.S),
                                 !.fs[S.sessionDir] = disc.files,
                                 !.res = "disconnected"]

\* CJamRecorder::OnFrame after "if ( !isRecording ) Start ()", which left the
\* recorder R1: the call of currentSession->Frame.
ForwardFrame(R1, iChID, name, address, numAudioChannels, wavOk) ==
        IF R1.status # "running"
        THEN R1
        ELSE LET S  == R1.currentSession[1]
                 fr == Frame(S, R1.fs[S.sessionDir], iChID, name, address,
                             numAudioChannels, wavOk)
             IN  [R1 EXCEPT !.currentSession = Some(fr.S),
                            !.fs[S.sessionDir] = fr.files,
                            !.status = IF fr.res = "threw" THEN "exception" ELSE @,
                            !.res = fr.res]

\* A variant of OnFrame that calls Start whether or not it is recording.
OnFrameRestarts(R, t, iChID, name, address, numAudioChannels, dirFault, wavOk) ==
    ForwardFrame(Start(R, t, TRUE, TRUE, dirFault),
                 iChID, name, address, numAudioChannels, wavOk)

\* CJamRecorder::OnFrame
OnFrame(R, t, iChID, name, address, numAudioChannels, dirFault, wavOk) ==
    ForwardFrame(IF ~R.isRecording THEN Start(R, t, TRUE, TRUE, dirFault) ELSE R,
                 iChID, name, address, numAudioChannels, wavOk)

----------------------------------------------------------------------------
(* The state machine: one action per event the recorder handles. *)

NoOp == [op |-> "none", ch |-> -1, nch |-> -1, res |-> "none"]

E2EOff == [ph |-> "off", ch |-> -1, name |-> "", nch |-> 0,
           addr |-> [InetAddr |-> 0, iPort |-> 0], n |-> 0, sid |-> 0]

\* The recorder state at the start of a handler.
Rec ==
    [ isRecording |-> isRecording, currentSession |-> currentSession, fs |-> fs,
      status |-> status, warned |-> {}, emitted |-> emitted, nSessions |-> nSessions,
      ended |-> ended, exportLog |-> exportLog, res |-> "none" ]

SidOf(session) == IF session = Null THEN 0 ELSE session[1].sid

\* The readings the clock can give to a handler: the last reading or a later
\* one. Time is counted from the construction of the first session.
ClockReadings ==
    IF nSessions = 0 THEN {now} ELSE {t \in now .. (now + 1) : t <= MaxClock}

\* The failing file operations among a handler's inputs.
Faults(rppOk, lofOk, dirFault, wavOk) ==
    (IF rppOk THEN 0 ELSE 1) + (IF lofOk THEN 0 ELSE 1)
    + (IF dirFault = "ok" THEN 0 ELSE 1) + (IF wavOk THEN 0 ELSE 1)

\* The monitor of the frames that follow a disconnect event, per channel of
\* the current session: 1 after OnDisconnected finalized the channel's
\* recording, until the next frame for the channel is handled; 3 instead of 1
\* once CJamSession::DisconnectClient has run for another channel in between;
\* 2 after the next frame when the monitor was at 1, until the frame
\* following it is handled; 0 otherwise.
AfterDiscNext(R, op, ch) ==
    [c \in ChanIds |->
        IF R.currentSession = Null \/ SidOf(R.currentSession) # SidOf(currentSession)
        THEN 0
        ELSE IF op = "OnDisconnected" /\ ch = c
        THEN 1
        ELSE IF op = "OnFrame" /\ ch = c
        THEN (IF afterDisc[c] = 1 THEN 2 ELSE 0)
        ELSE IF /\ afterDisc[c] = 1
                /\ \E d \in ChanIds \ {c} :
                      R.currentSession[1].nDisconnect[d] > currentSession[1].nDisconnect[d]
        THEN 3
        ELSE afterDisc[c] ]

\* The state a handler leaves. t is the clock reading it was given, faults the
\* number of its file operations that failed, mon the scenario monitor's
\* next value. R.warned, the warnings the handler logged, and R.res, the path
\* it took, are outputs that no later handler reads.
Commit(R, op, ch, nch, t, faults, mon) ==
    /\ isRecording' = R.isRecording
    /\ currentSession' = R.currentSession
    /\ fs' = R.fs
    /\ now' = t
    /\ status' = R.status
    /\ emitted' = R.emitted
    /\ nSessions' = R.nSessions
    /\ nFrames' = IF op = "OnFrame" THEN nFrames + 1 ELSE nFrames
    /\ nFaults' = nFaults + faults
    /\ ended' = R.ended
    /\ exportLog' = R.exportLog
    /\ lastOp' = IF op \in {"OnFrame", "OnDisconnected"} /\ R.currentSession # Null
                 THEN [op |-> op, ch |-> ch, nch |-> nch, res |-> R.res]
                 ELSE NoOp
    /\ afterDisc' = AfterDiscNext(R, op, ch)
    /\ e2e' = IF R.status = "segv" THEN E2EOff ELSE mon
    /\ UNCHANGED <<qvars, offline, wave>>

NoCall == [n |-> 0, path |-> <<>>, threw |-> "none"]

\* The recorder after construction, before CJamRecorder::Init is called.
InitRecorder ==
    /\ isRecording = FALSE
    /\ currentSession = Null
    /\ now = 0
    /\ status = "running"
    /\ emitted = <<>>
    /\ nSessions = 0
    /\ nFrames = 0
    /\ nFaults = 0
    /\ ended = Null
    /\ exportLog = [sid |-> 0, rpp |-> "none", lof |-> "none"]
    /\ lastOp = NoOp
    /\ afterDisc = [c \in ChanIds |-> 0]
    /\ e2e = E2EOff
    /\ queue = <<>>
    /\ running = {}
    /\ began = <<>>
    /\ offline = NoCall

\* No recording is followed sample by sample.
NoWave == [client |-> Null, content |-> <<>>, frameSize |-> 0, fed |-> 0, conn |-> Null]

Init ==
    /\ InitRecorder
    /\ fs = EmptyFn
    /\ wave = NoWave

\* The end-to-end scenario: a session started in a fresh directory by the first
\* of n frames of one client (one channel id, name, address and channel
\* count), then its disconnect, then the end of the session, with no failing
\* file operation.
E2EFrame(t, iChID, p, faults) ==
    IF ~isRecording /\ SessionDirAt(t) \notin DOMAIN fs /\ faults = 0
    THEN [ph |-> "frames", ch |-> iChID, name |-> p.name, nch |-> p.nch,
          addr |-> p.addr, n |-> 1, sid |-> nSessions + 1]
    ELSE IF /\ isRecording /\ e2e.ph = "frames" /\ faults = 0
            /\ e2e.ch = iChID /\ e2e.name = p.name /\ e2e.addr = p.addr
            /\ e2e.nch = p.nch
    THEN [e2e EXCEPT !.n = @ + 1]
    ELSE E2EOff

\* frame-arrived (iChID, name, address, numAudioChannels, data)
OnFrameEvent(iChID, p, t, dirFault, wavOk) ==
    /\ status = "running"
    /\ nFrames < MaxFrames
    /\ IF isRecording
       THEN t = now /\ dirFault = "ok"
       ELSE t \in ClockReadings /\ nSessions < MaxSessions
    /\ nFaults + Faults(TRUE, TRUE, dirFault, wavOk) <= MaxFaults
    /\ Commit(OnFrame(Rec, t, iChID, p.name, p.addr, p.nch, dirFault, wavOk),
              "OnFrame", iChID, p.nch, t, Faults(TRUE, TRUE, dirFault, wavOk),
              E2EFrame(t, iChID, p, Faults(TRUE, TRUE, dirFault, wavOk)))

\* client-disconnected (iChID)
OnDisconnectedEvent(iChID) ==
    /\ status = "running"
    /\ Commit(OnDisconnected(Rec, iChID), "OnDisconnected", iChID, -1, now, 0,
              IF e2e.ph = "frames" /\ e2e.ch = iChID
              THEN [e2e EXCEPT !.ph = "disc"] ELSE E2EOff)

\* stop-requested, server-stopped
OnEndEvent(rppOk, lofOk) ==
    /\ status = "running"
    /\ isRecording \/ (rppOk /\ lofOk)
    /\ nFaults + Faults(rppOk, lofOk, "ok", TRUE) <= MaxFaults
    /\ Commit(OnEnd(Rec, rppOk, lofOk), "OnEnd", -1, -1, now,
              Faults(rppOk, lofOk, "ok", TRUE),
              IF e2e.ph = "disc" /\ rppOk /\ lofOk
              THEN [e2e EXCEPT !.ph = "ended"] ELSE E2EOff)

\* restart-requested
OnTriggerSessionEvent(t, rppOk, lofOk, dirFault) ==
    /\ status = "running"
    /\ IF isRecording
       THEN t \in ClockReadings /\ nSessions < MaxSessions
       ELSE t = now /\ rppOk /\ lofOk /\ dirFault = "ok"
    /\ nFaults + Faults(rppOk, lofOk, dirFault, TRUE) <= MaxFaults
    /\ Commit(OnTriggerSession(Rec, t, rppOk, lofOk, dirFault), "OnTriggerSession",
              -1, -1, t, Faults(rppOk, lofOk, dirFault, TRUE), E2EOff)

\* application-exiting
OnAboutToQuitEvent(rppOk, lofOk) ==
    /\ status = "running"
    /\ isRecording \/ (rppOk /\ lofOk)
    /\ nFaults + Faults(rppOk, lofOk, "ok", TRUE) <= MaxFaults
    /\ Commit(OnAboutToQuit(Rec, rppOk, lofOk), "OnAboutToQuit", -1, -1, now,
              Faults(rppOk, lofOk, "ok", TRUE), E2EOff)

Clock == 0 .. MaxClock

Next ==
    \/ \E c \in ChanIds, p \in FrameParams, t \in Clock, d \in DirFaults, w \in BOOLEAN :
          OnFrameEvent(c, p, t, d, w)
    \/ \E c \in ChanIds : OnDisconnectedEvent(c)
    \/ \E r \in BOOLEAN, l \in BOOLEAN : OnEndEvent(r, l)
    \/ \E t \in Clock, r \in BOOLEAN, l \in BOOLEAN, d \in DirFaults :
          OnTriggerSessionEvent(t, r, l, d)
    \/ \E r \in BOOLEAN, l \in BOOLEAN : OnAboutToQuitEvent(r, l)

Spec == Init /\ [][Next]_vars

----------------------------------------------------------------------------
(* The delivery of the server's signals (CJamRecorder::Init). Each signal   *)
(* is connected to its slot with a connection type, and the recorder object *)
(* lives in a thread of its own. A queued connection posts the slot call to *)
(* the event queue of the receiver's thread, whose event loop takes the     *)
(* posted calls one by one, in the order they were posted, and runs each to *)
(* its end; a direct connection runs the slot inside the emit, on the       *)
(* emitting thread. No slot of the recorder runs a nested event loop.       *)

\* The signals of the server that CJamRecorder::Init connects.
Signals == {"RestartRecorder", "StopRecorder", "Stopped", "ClientDisconnected",
            "AudioFrame"}

\* The slot each signal is connected to.
SlotOf(sig) ==
    CASE sig = "RestartRecorder"    -> "OnTriggerSession"
      [] sig = "StopRecorder"       -> "OnEnd"
      [] sig = "Stopped"            -> "OnEnd"
      [] sig = "ClientDisconnected" -> "OnDisconnected"
      [] sig = "AudioFrame"         -> "OnFrame"

\* A variant of ConnectionType with the frame signal connected directly.
FrameConnectedDirectly(sig) == IF sig = "AudioFrame" THEN "Direct" ELSE "Queued"

\* The connection type each connect call passes.
ConnectionType(sig) == "Queued"

\* The threads of the server that emit its signals; the recorder's slots run
\* in "recorder", the thread the recorder object is moved to.
Producers == {"server", "main"}

\* A thread is inside a slot call.
Busy(thread) == \E h \in running : h.thread = thread

\* The id of the next signal: signals are numbered in the order of emission.
NextId == Len(began) + Len(queue) + 1

\* Thread p of the server emits sig.
Emit(p, sig) ==
    /\ NextId <= MaxEvents
    /\ ~Busy(p)
    /\ IF ConnectionType(sig) = "Queued"
       THEN /\ queue' = Append(queue, [id |-> NextId, slot |-> SlotOf(sig)])
            /\ UNCHANGED <<running, began>>
       ELSE /\ running' = running \cup {[id |-> NextId, slot |-> SlotOf(sig), thread |-> p]}
            /\ began' = Append(began, NextId)
            /\ UNCHANGED queue
    /\ UNCHANGED <<recvars, offline, wave>>

\* The event loop of the recorder's thread takes the next posted slot call.
BeginSlot ==
    /\ queue # <<>>
    /\ ~Busy("recorder")
    /\ running' = running \cup {[id |-> Head(queue).id, slot |-> Head(queue).slot,
                                 thread |-> "recorder"]}
    /\ began' = Append(began, Head(queue).id)
    /\ queue' = Tail(queue)
    /\ UNCHANGED <<recvars, offline, wave>>

\* A slot call returns.
ReturnSlot(h) ==
    /\ h \in running
    /\ running' = running \ {h}
    /\ UNCHANGED <<queue, began>>
    /\ UNCHANGED <<recvars, offline, wave>>

QNext ==
    \/ \E p \in Producers, sig \in Signals : Emit(p, sig)
    \/ BeginSlot
    \/ \E h \in running : ReturnSlot(h)

QSpec == Init /\ [][QNext]_vars

----------------------------------------------------------------------------
(* The conversion of a session directory (CJamRecorder::SessionDirToReaper), *)
(* a static function run from the command line on a directory of the       *)
(* recording base directory, whether or not a recorder is at work there.    *)

\* The keys <name, host-port> of a track map from a directory, in QMap order.
DirKeyRank(k) == NameRank(k[1]) * 100 + k[2]

RECURSIVE DirKeysOf(_)
DirKeysOf(keys) ==
    IF keys = {}
    THEN <<>>
    ELSE LET first == CHOOSE k \in keys : \A g \in keys : DirKeyRank(k) <= DirKeyRank(g)
         IN  <<first>> \o DirKeysOf(keys \ {first})

\* The project file as SessionDirToReaper writes it: tracks is the track map
\* read back from the directory.
WriteReaper(dirs, path, target, tracks) ==
    [ threw |-> "none",
      dirs  |-> [dirs EXCEPT ![path] =
                    @ @@ (target :> TextFile("rpp", 0,
                                   ReaperTracks(tracks, DirKeysOf(DOMAIN tracks), 1)))] ]

\* A variant of SessionDirToReaper without the check for an existing project
\* file: QFile::open (WriteOnly) truncates the file.
SessionDirToReaperOverwrites(dirs, path, isFile, openOk) ==
    IF path \notin DOMAIN dirs
    THEN [threw |-> "nodir", dirs |-> dirs]
    ELSE IF ~openOk
    THEN [threw |-> "open", dirs |-> dirs]
    ELSE [ threw |-> "none",
           dirs  |-> [dirs EXCEPT ![path] =
                        [f \in DOMAIN @ \cup {FileName(path, 0, "rpp")} |->
                            IF f = FileName(path, 0, "rpp")
                            THEN TextFile("rpp", 0, <<>>) ELSE @[f]]] ]

\* CJamRecorder::SessionDirToReaper. path is a directory when it is in dirs;
\* isFile says that something that is not a directory exists at path. Returns
\* the exception thrown, if any, and the directories.
SessionDirToReaper(dirs, path, isFile, openOk) ==
    LET exists == path \in DOMAIN dirs \/ isFile
        isDir  == path \in DOMAIN dirs
    IN  IF ~exists \/ ~isDir
        THEN [threw |-> "nodir", dirs |-> dirs]
        ELSE IF Exists(dirs[path], FileName(path, 0, "rpp"))
        THEN [threw |-> "exists", dirs |-> dirs]
        ELSE IF ~openOk
        THEN [threw |-> "open", dirs |-> dirs]
        ELSE WriteReaper(dirs, path, FileName(path, 0, "rpp"),
                         TracksFromSessionDir(dirs[path]))

\* The files a directory left by an earlier run can hold: a project file, a
\* finalized recording, and two raw recordings with names of four fields.
OldFiles(dir) ==
    (FileName(dir, 0, "rpp") :> TextFile("rpp", 0, <<>>))
    @@ (FileName(<<"Alice", 0, 2>>, 0, "wav") :>
           [WavFile(0) EXCEPT !.samples = 256, !.finalised = TRUE])
    @@ (FileName(<<"Alice", 1, 0, 2>>, 0, "pcm") :>
           [kind |-> "pcm", by |-> 0, samples |-> 512, finalised |-> TRUE, text |-> <<>>])
    @@ (FileName(<<"Bob", 1, 1, 1>>, 0, "pcm") :>
           [kind |-> "pcm", by |-> 0, samples |-> 128, finalised |-> TRUE, text |-> <<>>])

\* The recording base directory at the start: empty, or with the directory
\* of an earlier session that holds some of the files above.
OldTrees ==
    {EmptyFn} \cup
    { (SessionDirAt(0) :> [f \in F |-> OldFiles(SessionDirAt(0))[f]]) :
          F \in SUBSET DOMAIN OldFiles(SessionDirAt(0)) }

\* The paths SessionDirToReaper is called with.
ConversionPaths == {SessionDirAt(t) : t \in Clock}

OInit ==
    /\ InitRecorder
    /\ fs \in OldTrees
    /\ wave = NoWave

\* SessionDirToReaper (path): the command-line conversion.
SessionDirToReaperCall(path, isFile, openOk) ==
    /\ offline.n < MaxConversions
    /\ isFile => path \notin DOMAIN fs
    /\ fs' = SessionDirToReaper(fs, path, isFile, openOk).dirs
    /\ offline' = [n |-> offline.n + 1, path |-> path,
                   threw |-> SessionDirToReaper(fs, path, isFile, openOk).threw]
    /\ UNCHANGED <<isRecording, currentSession, now, status, emitted, nSessions,
                   nFrames, nFaults, ended, exportLog, lastOp, afterDisc, e2e>>
    /\ UNCHANGED <<qvars, wave>>

\* The recorder handles a first frame while conversions are run.
LiveFrame(c, p, t, d, w) ==
    /\ nFrames < MaxLiveFrames
    /\ OnFrameEvent(c, p, t, d, w)

ONext ==
    \/ \E path \in ConversionPaths, isFile \in BOOLEAN, openOk \in BOOLEAN :
          SessionDirToReaperCall(path, isFile, openOk)
    \/ \E c \in ChanIds, p \in FrameParams, t \in Clock, d \in DirFaults, w \in BOOLEAN :
          LiveFrame(c, p, t, d, w)

OSpec == OInit /\ [][ONext]_vars

----------------------------------------------------------------------------
(* The samples of one recording (CJamClient::Frame, CJamClient::Disconnect   *)
(* and the connection made of it). The file is the sequence of the samples  *)
(* written to the stream after the header; a frame is the name of the       *)
(* client and a vector pcm of at least numChannels * frame size samples.    *)

FrameSizes == 1 .. MaxFrameSize

SampleValues == {0, 1}

\* The vectors of n or n + 1 samples.
PcmVectors(n) ==
    UNION { [1 .. k -> SampleValues] : k \in {n, n + 1} }

\* The for loop of CJamClient::Frame from index i on: "*out << pcm[i]" while
\* i < n. Index i of the vector is element i + 1 of the sequence.
RECURSIVE WriteLoop(_, _, _, _)
WriteLoop(content, pcm, i, n) ==
    IF i < n
    THEN WriteLoop(Append(content, pcm[i + 1]), pcm, i + 1, n)
    ELSE content

\* A variant of ClientFrameData whose loop runs from the last sample of the
\* frame down to the first.
ClientFrameDataBackwards(client, content, _name, pcm, frameSize) ==
    [ client  |-> [client EXCEPT !.name = _name, !.frameCount = @ + 1],
      content |-> content \o [j \in 1 .. (client.numChannels * frameSize) |->
                                 pcm[client.numChannels * frameSize + 1 - j]] ]

\* CJamClient::Frame with the samples: the recording and the samples of its
\* file after the call.
ClientFrameData(client, content, _name, pcm, frameSize) ==
    [ client  |-> [client EXCEPT !.name = _name, !.frameCount = @ + 1],
      content |-> WriteLoop(content, pcm, 0, client.numChannels * frameSize) ]

\* A recording just opened at frame 0, for each channel count and frame size.
FInit ==
    /\ InitRecorder
    /\ fs = EmptyFn
    /\ wave \in { [ client    |-> Some(CJamClient(0, nch, BaseParams.name, BaseParams.addr,
                                                 EmptyFn, 0).client),
                     content   |-> <<>>,
                     frameSize |-> k,
                     fed       |-> 0,
                     conn      |-> Null ] :
                    nch \in AudioChannelCounts, k \in FrameSizes }

\* CJamSession::Frame feeds a frame to the recording.
FeedData(_name, pcm) ==
    /\ wave.client # Null
    /\ wave.fed < MaxFed
    /\ wave' = [wave EXCEPT
                  !.client  = Some(ClientFrameData(wave.client[1], wave.content, _name,
                                                   pcm, wave.frameSize).client),
                  !.content = ClientFrameData(wave.client[1], wave.content, _name,
                                              pcm, wave.frameSize).content,
                  !.fed     = @ + 1]
    /\ UNCHANGED <<recvars, qvars, offline>>

\* CJamSession::DisconnectClient finalizes the recording: the connection is
\* made of it and the recording is deleted.
FinalizeData ==
    /\ wave.client # Null
    /\ wave' = [wave EXCEPT !.client = Null,
                            !.conn = Some(CJamClientConnection(wave.client[1]))]
    /\ UNCHANGED <<recvars, qvars, offline>>

FNext ==
    \/ /\ wave.client # Null
       /\ \E _name \in Names :
             \E pcm \in PcmVectors(wave.client[1].numChannels * wave.frameSize) :
                FeedData(_name, pcm)
    \/ FinalizeData

FSpec == FInit /\ [][FNext]_vars

----------------------------------------------------------------------------
(* Properties *)

\* The step stays within one session.
SameSession ==
    /\ currentSession # Null
    /\ currentSession' # Null
    /\ currentSession'[1].sid = currentSession[1].sid

\* C1: within one session the global frame counter currentFrame never
\* decreases, and no handler - a frame or a disconnect - raises it by more
\* than 1; only a frame raises it. A session begins with the counter at 0, so
\* after the frame that started it the counter is 0 or 1.
C1_CurrentFrameMonotone ==
    [][ /\ SameSession =>
              /\ currentSession'[1].currentFrame \in
                     { currentSession[1].currentFrame,
                       currentSession[1].currentFrame + 1 }
              /\ nFrames' = nFrames =>
                     currentSession'[1].currentFrame = currentSession[1].currentFrame
        /\ (currentSession' # Null /\ ~SameSession) =>
              currentSession'[1].currentFrame \in {0, 1} ]_vars

\* C1 witness: a session that has had a disconnect and whose counter has
\* stepped more than once.
C1_Witness ==
    /\ currentSession # Null
    /\ currentSession[1].currentFrame >= 2
    /\ \E c \in ChanIds : currentSession[1].nDisconnect[c] >= 1

\* The step is a frame event for channel c handled by the current session.
FrameStepFor(c) ==
    /\ nFrames' = nFrames + 1
    /\ lastOp'.op = "OnFrame"
    /\ lastOp'.ch = c
    /\ SameSession

\* The frame handled in this step was dropped: the slot table, the finalized
\* connections, the counter and the files are as they were and the marker is
\* cleared.
Dropped ==
    /\ currentSession'[1].vecptrJamClients = currentSession[1].vecptrJamClients
    /\ currentSession'[1].jamClientConnections = currentSession[1].jamClientConnections
    /\ currentSession'[1].currentFrame = currentSession[1].currentFrame
    /\ currentSession'[1].chIdDisconnected = -1
    /\ fs' = fs
    /\ status' = "running"

\* C2 as stated: after a disconnect event finalized the recording in slot c,
\* the next frame for c - whatever the session handled in between - is
\* dropped, with slot c still empty.
C2_NextFrameDropped ==
    [][ \A c \in ChanIds :
          (afterDisc[c] \in {1, 3} /\ FrameStepFor(c)) =>
              /\ Dropped
              /\ currentSession'[1].vecptrJamClients[c] = Null ]_vars

\* C2 amended: after a disconnect event finalized the recording in slot c,
\* and as long as DisconnectClient has not run for another channel since,
\* the next frame for c is dropped - the finalized connections, the slot
\* table (slot c empty), the files and the counter stay as they were and only
\* the marker is cleared - and the frame for c following that one opens a
\* brand-new recording in slot c: it starts at the current counter, holds
\* that one frame, and writes to a file that did not exist before.
C2_StaleThenFresh ==
    [][ \A c \in ChanIds :
          /\ (afterDisc[c] = 1 /\ FrameStepFor(c)) =>
                 /\ currentSession[1].vecptrJamClients[c] = Null
                 /\ currentSession[1].chIdDisconnected = c
                 /\ Dropped
                 /\ currentSession' =
                       Some([currentSession[1] EXCEPT !.chIdDisconnected = -1,
                                                      !.nDropped[c] = @ + 1])
          /\ (afterDisc[c] = 2 /\ FrameStepFor(c) /\ status' = "running") =>
                 LET S  == currentSession[1]
                     S1 == currentSession'[1]
                 IN  /\ S.vecptrJamClients[c] = Null
                     /\ S1.vecptrJamClients[c] # Null
                     /\ S1.vecptrJamClients[c][1].startFrame = S.currentFrame
                     /\ S1.vecptrJamClients[c][1].frameCount = 1
                     /\ S1.vecptrJamClients[c][1].filename \notin DOMAIN fs[S.sessionDir]
                     /\ S1.vecptrJamClients[c][1].filename \in DOMAIN fs'[S.sessionDir]
                     /\ S1.jamClientConnections = S.jamClientConnections
                     /\ \A d \in ChanIds \ {c} :
                           S1.vecptrJamClients[d] = S.vecptrJamClients[d] ]_vars

\* C2 witness: a channel's recording was finalized by a disconnect, its next
\* frame was dropped and the frame after that has just opened a recording
\* that starts where the finalized one ended.
C2_Witness ==
    /\ currentSession # Null
    /\ status = "running"
    /\ \E c \in ChanIds :
          /\ lastOp = [op |-> "OnFrame", ch |-> c, nch |-> 2, res |-> "opened"]
          /\ afterDisc[c] = 0
          /\ currentSession[1].nDisconnect[c] = 1
          /\ currentSession[1].nDropped[c] = 1
          /\ Len(currentSession[1].jamClientConnections) = 1
          /\ currentSession[1].vecptrJamClients[c] # Null
          /\ currentSession[1].vecptrJamClients[c][1].frameCount = 1
          /\ currentSession[1].vecptrJamClients[c][1].startFrame =
                currentSession[1].jamClientConnections[1].length

\* C3: in every session, for every channel c, the frames for c dropped as
\* stale are at most as many as the executions of CJamSession::DisconnectClient
\* for c so far - those run by a disconnect event and those run by Frame
\* itself on a change of the client's parameters.
C3_DropsAtMostDisconnects ==
    currentSession # Null =>
        \A c \in ChanIds :
            currentSession[1].nDropped[c] <= currentSession[1].nDisconnect[c]

\* C3 witness: a frame has been dropped after a disconnect and a further frame
\* for the channel has been recorded.
C3_Witness ==
    /\ currentSession # Null
    /\ \E c \in ChanIds :
          /\ currentSession[1].nDropped[c] = 1
          /\ currentSession[1].nDisconnect[c] = 1
          /\ currentSession[1].vecptrJamClients[c] # Null

\* C4: a disconnect event for a channel whose slot is empty, while recording,
\* is a no-op: the session (slot table, finalized connections, marker and
\* counter) and the files stay as they were, the recorder stays recording and
\* no error state is reached.
C4_DisconnectEmptySlotNoOp ==
    [][ \A c \in ChanIds :
          ( /\ isRecording
            /\ currentSession # Null
            /\ currentSession[1].vecptrJamClients[c] = Null
            /\ OnDisconnectedEvent(c) ) =>
              /\ currentSession' = currentSession
              /\ fs' = fs
              /\ isRecording' = isRecording
              /\ status' = "running" ]_vars

\* The shape of a track map without its keys: the groups of segments, each
\* segment as channel count, start frame and length.
TrackShape(tracks) ==
    { [j \in 1 .. Len(tracks[k]) |->
          << tracks[k][j].numAudioChannels, tracks[k][j].startFrame,
             tracks[k][j].frameCount >>] : k \in DOMAIN tracks }

\* C5: for the session that ended last, Tracks () of the session and
\* TracksFromSessionDir () of its directory agree up to the format of the
\* keys: as many tracks, and the same groups of segments with the same
\* channel counts, start frames and lengths.
C5_TracksAgreeWithSessionDir ==
    ended # Null =>
        LET live    == ended[1].tracks
            fromDir == TracksFromSessionDir(fs[ended[1].dir])
        IN  /\ Cardinality(DOMAIN live) = Cardinality(DOMAIN fromDir)
            /\ TrackShape(live) = TrackShape(fromDir)

\* C6: a frame with channel count 0 for a channel that holds an active
\* 2-channel recording finalizes that recording and leaves the slot empty;
\* and when the next frame for the channel has channel count 2 again, it
\* opens a new 2-channel recording that starts at the counter of that moment.
C6_ZeroChannelsThenTwo ==
    [][ \A c \in ChanIds :
          /\ ( /\ currentSession # Null
               /\ currentSession[1].vecptrJamClients[c] # Null
               /\ currentSession[1].vecptrJamClients[c][1].numChannels = 2
               /\ nFrames' = nFrames + 1
               /\ lastOp'.op = "OnFrame" /\ lastOp'.ch = c /\ lastOp'.nch = 0 ) =>
                 /\ currentSession'[1].vecptrJamClients[c] = Null
                 /\ currentSession'[1].jamClientConnections =
                       Append(currentSession[1].jamClientConnections,
                              CJamClientConnection(
                                  currentSession[1].vecptrJamClients[c][1]))
          /\ ( /\ lastOp = [op |-> "OnFrame", ch |-> c, nch |-> 0, res |-> "closed"]
               /\ nFrames' = nFrames + 1
               /\ lastOp'.op = "OnFrame" /\ lastOp'.ch = c /\ lastOp'.nch = 2
               /\ status' = "running" ) =>
                 /\ currentSession'[1].vecptrJamClients[c] # Null
                 /\ currentSession'[1].vecptrJamClients[c][1].numChannels = 2
                 /\ currentSession'[1].vecptrJamClients[c][1].startFrame =
                       currentSession[1].currentFrame ]_vars

\* C7: opening a recording never reuses a file. No file leaves a directory;
\* a WAV file that is there changes only while it is the file of an active
\* recording of the current session, which appends to it, and never once
\* that recording is finalized; and a WAV file that appears carries the
\* first suffix not in use: none when the derived name was free, and _k only
\* when the derived name and every suffix below _k were taken.
C7_NeverReusesFile ==
    [][ /\ \A d \in DOMAIN fs :
              /\ d \in DOMAIN fs'
              /\ \A f \in DOMAIN fs[d] :
                    /\ f \in DOMAIN fs'[d]
                    /\ (f.ext = "wav" /\ fs'[d][f] # fs[d][f]) =>
                          /\ ~fs[d][f].finalised
                          /\ fs'[d][f].by = fs[d][f].by
                          /\ fs'[d][f].samples >= fs[d][f].samples
                          /\ currentSession # Null
                          /\ currentSession[1].sessionDir = d
                          /\ \E c \in ChanIds :
                                /\ currentSession[1].vecptrJamClients[c] # Null
                                /\ currentSession[1].vecptrJamClients[c][1].filename = f
        /\ \A d \in DOMAIN fs' : \A f \in DOMAIN fs'[d] :
              (f.ext = "wav" /\ (d \notin DOMAIN fs \/ f \notin DOMAIN fs[d])) =>
                  \A k \in 0 .. (f.affix - 1) :
                      d \in DOMAIN fs /\ FileName(f.stem, k, "wav") \in DOMAIN fs[d] ]_vars

\* C7 witness: a directory holds a recording of an earlier session and, with
\* the suffix _1, a recording of the same derived name of a later session,
\* each with the samples of its own frames.
C7_Witness ==
    \E d \in DOMAIN fs : \E f \in DOMAIN fs[d] :
        /\ f.ext = "wav" /\ f.affix = 1
        /\ fs[d][f].by = 2
        /\ fs[d][FileName(f.stem, 0, "wav")].by = 1
        /\ fs[d][FileName(f.stem, 0, "wav")].finalised
        /\ fs[d][FileName(f.stem, 0, "wav")].samples > 0

\* C8: a live export never overwrites. A project file that is there is never
\* changed or removed; and when a session ends while the target of a format is
\* there, that exporter takes the branch that logs the warning and writes
\* nothing.
C8_ExportNeverOverwrites ==
    [][ /\ \A d \in DOMAIN fs : \A f \in DOMAIN fs[d] :
              f.ext \in {"rpp", "lof"} =>
                  d \in DOMAIN fs' /\ f \in DOMAIN fs'[d] /\ fs'[d][f] = fs[d][f]
        /\ isRecording =>
              \A x \in {"rpp", "lof"} :
                  LET d == currentSession[1].sessionDir
                  IN  FileName(d, 0, x) \in DOMAIN fs[d] =>
                        /\ \A r \in BOOLEAN, l \in BOOLEAN :
                              <<x, "exists">> \in OnEnd(Rec, r, l).warned
                        /\ ended' # ended =>
                              /\ exportLog'.sid = currentSession[1].sid
                              /\ exportLog'[x] = "exists" ]_vars

\* C8 witness: a session has ended in a directory that held both project
\* files of an earlier session, and both are still that session's.
C8_Witness ==
    /\ exportLog.sid = 2
    /\ exportLog.rpp = "exists"
    /\ exportLog.lof = "exists"
    /\ \A x \in {"rpp", "lof"} :
          fs[ended[1].dir][FileName(ended[1].dir, 0, x)].by = 1

\* C9: the two live exports are independent. When a session ends each format
\* is attempted, whatever became of the other: it is skipped exactly when its
\* own target is there; otherwise it is written by this session, or - when
\* the file cannot be created - nothing is written for it.
C9_ExportsIndependent ==
    [][ (isRecording /\ ended' # ended) =>
          LET d == currentSession[1].sessionDir
          IN  /\ exportLog'.sid = currentSession[1].sid
              /\ \A x \in {"rpp", "lof"} :
                    LET target == FileName(d, 0, x)
                    IN  /\ exportLog'[x] \in {"exists", "written", "open_failed"}
                        /\ exportLog'[x] = "exists" <=> target \in DOMAIN fs[d]
                        /\ exportLog'[x] = "written" =>
                              /\ target \in DOMAIN fs'[d]
                              /\ fs'[d][target].by = currentSession[1].sid
                        /\ exportLog'[x] = "open_failed" =>
                              target \notin DOMAIN fs'[d] ]_vars

\* C9 witness: a directory whose LOF file is the first session's and whose
\* Reaper file is the second session's. The first session could not create
\* its Reaper file and still wrote the LOF file; the second session found the
\* LOF file there and still wrote the Reaper file.
C9_Witness ==
    /\ ended # Null
    /\ exportLog = [sid |-> 2, rpp |-> "written", lof |-> "exists"]
    /\ fs[ended[1].dir][FileName(ended[1].dir, 0, "lof")].by = 1
    /\ fs[ended[1].dir][FileName(ended[1].dir, 0, "rpp")].by = 2

\* C10: end to end. A session started in a new directory by the first of n
\* frames of one channel with one name, address and channel count, then the
\* disconnect of that channel, then the end of the session, with every file
\* operation succeeding, leaves exactly one finalized connection - n frames
\* from frame 0 with that channel count - in one track keyed by the name, a
\* WAV file holding the samples of the n frames, and two project files that
\* each have exactly one entry, for that file at offset 0.
C10_EndToEnd ==
    e2e.ph = "ended" =>
        LET E    == ended[1]
            file == FileName(<<e2e.name, 0, e2e.nch>>, 0, "wav")
            item == STrackItem(e2e.nch, 0, e2e.n, file)
        IN  /\ E.sid = e2e.sid
            /\ E.conns = << [ numChannels |-> e2e.nch, startFrame |-> 0,
                              length |-> e2e.n, name |-> e2e.name,
                              fileName |-> file ] >>
            /\ DOMAIN E.tracks = {e2e.name}
            /\ E.tracks[e2e.name] = <<item>>
            /\ fs[E.dir][file].finalised
            /\ fs[E.dir][file].samples = e2e.n * e2e.nch * iServerFrameSizeSamples
            /\ exportLog = [sid |-> e2e.sid, rpp |-> "written", lof |-> "written"]
            /\ fs[E.dir][FileName(E.dir, 0, "rpp")].text =
                  << [ track |-> e2e.name,
                       items |-> << [ file   |-> file,
                                      offset |-> [num |-> 0, den |-> SampleRate],
                                      length |-> [num |-> e2e.n * iServerFrameSizeSamples,
                                                  den |-> SampleRate] ] >> ] >>
            /\ fs[E.dir][FileName(E.dir, 0, "lof")].text =
                  << [ file |-> file, offset |-> [num |-> 0, den |-> SampleRate] ] >>

\* C10 witness: the scenario has run with 3 frames of "Alice" with 2 channels.
C10_Witness ==
    /\ e2e.ph = "ended"
    /\ e2e.n = 3
    /\ e2e.name = "Alice"
    /\ e2e.nch = 2

\* The WAV files of session sid that are not finalized.
OpenFilesOf(dirs, sid) ==
    { <<d, f>> \in UNION { {d} \X DOMAIN dirs[d] : d \in DOMAIN dirs } :
          /\ f.ext = "wav"
          /\ dirs[d][f].by = sid
          /\ ~dirs[d][f].finalised }

\* C11: a step in which Start constructs a session first ends the session the
\* recorder had - its recordings are finalized, its exporters have run - then
\* leaves the recorder recording with the new session and with exactly one
\* more RecordingSessionStarted signal, which carries the new session's
\* directory; the recorder holds one session at most, the newest, and no
\* other session has a recording file open.
C11_StartEndsThenStarts ==
    [][ nSessions' = nSessions + 1 =>
          /\ isRecording' /\ currentSession' # Null
          /\ currentSession'[1].sid = nSessions'
          /\ emitted' = Append(emitted, currentSession'[1].sessionDir)
          /\ \A sid \in 1 .. nSessions : OpenFilesOf(fs', sid) = {}
          /\ currentSession # Null =>
                /\ isRecording
                /\ ended' # Null
                /\ ended'[1].sid = currentSession[1].sid
                /\ Len(ended'[1].conns) =
                      Len(currentSession[1].jamClientConnections)
                      + Cardinality({c \in ChanIds :
                                       currentSession[1].vecptrJamClients[c] # Null})
                /\ exportLog'.sid = currentSession[1].sid
                /\ exportLog'.rpp # "none" /\ exportLog'.lof # "none" ]_vars

\* C11 witness: a second session has been started while the first held an
\* active recording, which Start finalized.
C11_Witness ==
    /\ nSessions = 2
    /\ isRecording
    /\ currentSession[1].sid = 2
    /\ Len(emitted) = 2
    /\ ended # Null
    /\ ended[1].sid = 1
    /\ ended[1].active # {}
    /\ OpenFilesOf(fs, 1) = {}

\* The step handles a frame event and no exception leaves the handler.
FrameHandled ==
    /\ nFrames' = nFrames + 1
    /\ status' = "running"

\* C12: a frame handled while the recorder is idle starts a session before
\* the frame is forwarded: afterwards the recorder is recording, and the new
\* session has processed that frame from an empty slot table and frame
\* counter 0 (a recording for the frame's channel that starts at 0 and holds
\* one frame, no other slot in use, no finished connection, counter 1). A
\* frame handled while recording goes to the session the recorder has: no
\* session is constructed and none is ended.
C12_OnFrameStartsWhenIdle ==
    [][ FrameHandled =>
          /\ isRecording' /\ currentSession' # Null
          /\ lastOp'.op = "OnFrame"
          /\ IF ~isRecording
             THEN /\ nSessions' = nSessions + 1
                  /\ currentSession'[1].sid = nSessions'
                  /\ Len(emitted') = Len(emitted) + 1
                  /\ lastOp'.res = "opened"
                  /\ currentSession'[1].currentFrame = 1
                  /\ currentSession'[1].jamClientConnections = <<>>
                  /\ \A c \in ChanIds :
                        IF c = lastOp'.ch
                        THEN /\ currentSession'[1].vecptrJamClients[c] # Null
                             /\ currentSession'[1].vecptrJamClients[c][1].startFrame = 0
                             /\ currentSession'[1].vecptrJamClients[c][1].frameCount = 1
                        ELSE currentSession'[1].vecptrJamClients[c] = Null
             ELSE /\ nSessions' = nSessions
                  /\ currentSession # Null
                  /\ currentSession'[1].sid = currentSession[1].sid
                  /\ currentSession'[1].sessionDir = currentSession[1].sessionDir
                  /\ emitted' = emitted
                  /\ ended' = ended /\ exportLog' = exportLog ]_vars

\* C12 witness: a frame started the second session after the first one had
\* ended, and a later frame was handled by that second session.
C12_Witness ==
    /\ nSessions = 2
    /\ nFrames = 3
    /\ isRecording
    /\ ended # Null /\ ended[1].sid = 1
    /\ currentSession[1].sid = 2
    /\ currentSession[1].currentFrame = 2
    /\ lastOp.op = "OnFrame" /\ lastOp.res = "appended"

\* The step handles a stop-requested or server-stopped event.
OnEndStep == \E r \in BOOLEAN, l \in BOOLEAN : OnEndEvent(r, l)

\* The recorder state at the end of the step.
RecAfter ==
    [ isRecording |-> isRecording', currentSession |-> currentSession', fs |-> fs',
      status |-> status', warned |-> {}, emitted |-> emitted', nSessions |-> nSessions',
      ended |-> ended', exportLog |-> exportLog', res |-> "none" ]

\* C13: OnEnd while idle changes nothing. OnEnd while recording finalizes
\* every active recording of the session, runs both exporters on the tracks
\* of that finalized session, deletes the session and leaves the recorder
\* idle. It is idempotent: an OnEnd applied to the state it leaves changes no
\* state and attempts no export.
C13_OnEndIdempotent ==
    [][ OnEndStep =>
          /\ IF ~isRecording
             THEN UNCHANGED <<isRecording, currentSession, fs, status, emitted,
                              nSessions, ended, exportLog>>
             ELSE LET S   == currentSession[1]
                      fin == End(S, fs[S.sessionDir], 0)
                      rpp == FileName(SessionName(S), 0, "rpp")
                      lof == FileName(SessionName(S), 0, "lof")
                  IN  /\ ~isRecording' /\ currentSession' = Null
                      /\ status' = "running"
                      /\ OpenFilesOf(fs', S.sid) = {}
                      /\ ended' # Null
                      /\ ended'[1].sid = S.sid
                      /\ ended'[1].tracks = Tracks(fin.S)
                      /\ Len(ended'[1].conns) =
                            Len(S.jamClientConnections)
                            + Cardinality({c \in ChanIds : S.vecptrJamClients[c] # Null})
                      /\ exportLog'.sid = S.sid
                      /\ exportLog'.rpp \in {"exists", "written", "open_failed"}
                      /\ exportLog'.lof \in {"exists", "written", "open_failed"}
                      /\ exportLog'.rpp = "written" =>
                            fs'[S.sessionDir][rpp].text = CReaperProject(Tracks(fin.S))
                      /\ exportLog'.lof = "written" =>
                            fs'[S.sessionDir][lof].text =
                               LofLines(Tracks(fin.S), Keys(Tracks(fin.S)), 1)
          /\ \A r \in BOOLEAN, l \in BOOLEAN :
                OnEnd(RecAfter, r, l) = [RecAfter EXCEPT !.res = "idle"] ]_vars

\* C13 witness: OnEnd has ended a session with an active recording and with a
\* finished one, both exporters wrote their files, and the recorder is idle.
C13_Witness ==
    /\ ~isRecording /\ currentSession = Null
    /\ status = "running"
    /\ nSessions = 1
    /\ ended # Null
    /\ ended[1].active # {}
    /\ Len(ended[1].conns) = 2
    /\ exportLog.sid = ended[1].sid
    /\ exportLog.rpp = "written" /\ exportLog.lof = "written"

\* The step handles a restart-requested event.
OnTriggerStep ==
    \E t \in Clock, r \in BOOLEAN, l \in BOOLEAN, d \in DirFaults :
        OnTriggerSessionEvent(t, r, l, d)

\* C14: OnTriggerSession while recording ends the current session and, when
\* the new session's directory can be set up, leaves the recorder recording
\* with a new, different session and one more RecordingSessionStarted signal.
\* OnTriggerSession while idle constructs no session, emits no signal and
\* leaves the recorder idle.
C14_TriggerRestartsOnlyWhenRecording ==
    [][ OnTriggerStep =>
          IF isRecording
          THEN /\ ended' # Null
               /\ ended'[1].sid = currentSession[1].sid
               /\ exportLog'.sid = currentSession[1].sid
               /\ OpenFilesOf(fs', currentSession[1].sid) = {}
               /\ status' = "running" =>
                     /\ isRecording' /\ currentSession' # Null
                     /\ nSessions' = nSessions + 1
                     /\ currentSession'[1].sid = nSessions'
                     /\ currentSession'[1].sid # currentSession[1].sid
                     /\ currentSession'[1].currentFrame = 0
                     /\ emitted' = Append(emitted, currentSession'[1].sessionDir)
          ELSE /\ ~isRecording'
               /\ UNCHANGED <<currentSession, fs, status, emitted, nSessions,
                              ended, exportLog>> ]_vars

\* C14 witness: the only frame handled started session 1, and a restart
\* request ended it and started session 2.
C14_Witness ==
    /\ nFrames = 1
    /\ nSessions = 2
    /\ isRecording
    /\ currentSession[1].sid = 2
    /\ currentSession[1].currentFrame = 0
    /\ ended # Null /\ ended[1].sid = 1 /\ ended[1].active # {}
    /\ Len(emitted) = 2

\* C15: a disconnect event handled while the recorder is idle, with no
\* session, only logs warnings: no session is constructed and no recorder
\* state or file changes. A disconnect event handled while recording is
\* passed to CJamSession::DisconnectClient for that channel, and the session
\* and its directory are left as DisconnectClient leaves them.
C15_DisconnectWhenIdleOnlyWarns ==
    [][ \A c \in ChanIds :
          OnDisconnectedEvent(c) =>
             IF ~isRecording
             THEN /\ currentSession = Null
                  /\ OnDisconnected(Rec, c).warned # {}
                  /\ OnDisconnected(Rec, c).res = "nosession"
                  /\ UNCHANGED <<isRecording, currentSession, fs, status, emitted,
                                 nSessions, ended, exportLog>>
             ELSE LET S    == currentSession[1]
                      disc == DisconnectClient(S, fs[S.sessionDir], c)
                  IN  /\ OnDisconnected(Rec, c).warned = {}
                      /\ UNCHANGED <<emitted, nSessions, ended, exportLog>>
                      /\ ~disc.segv =>
                            /\ isRecording'
                            /\ currentSession' = Some(disc.S)
                            /\ fs' = [fs EXCEPT ![S.sessionDir] = disc.files]
                            /\ currentSession'[1].vecptrJamClients[c] = Null
                            /\ currentSession'[1].nDisconnect[c] = S.nDisconnect[c] + 1 ]_vars

\* C15 witness: a disconnect event was handled by a session, which finalized
\* the channel's recording; the session then ended, and with the recorder
\* idle a further disconnect event can only warn.
C15_Witness ==
    /\ ~isRecording /\ currentSession = Null
    /\ status = "running"
    /\ ended # Null
    /\ Len(ended[1].conns) = 1 /\ ended[1].active = {}
    /\ \E c \in ChanIds : OnDisconnected(Rec, c).res = "nosession"

\* Every WAV file in every session directory that is not finalized.
OpenFiles(dirs) ==
    { <<d, f>> \in UNION { {d} \X DOMAIN dirs[d] : d \in DOMAIN dirs } :
          f.ext = "wav" /\ ~dirs[d][f].finalised }

\* C16: when the recorder's thread has been asked to exit, OnEnd has
\* completed: the recorder is idle with no session and no recording file is
\* open; and if the application-exiting event found the recorder recording,
\* that session's recordings were finalized and both exporters ran before
\* the exit was requested.
C16_QuitAfterOnEnd ==
    [][ status' = "quit" /\ status # "quit" =>
          /\ ~isRecording' /\ currentSession' = Null
          /\ OpenFiles(fs') = {}
          /\ emitted' = emitted /\ nSessions' = nSessions
          /\ IF isRecording
             THEN /\ ended' # Null
                  /\ ended'[1].sid = currentSession[1].sid
                  /\ Len(ended'[1].conns) =
                        Len(currentSession[1].jamClientConnections)
                        + Cardinality({c \in ChanIds :
                                         currentSession[1].vecptrJamClients[c] # Null})
                  /\ exportLog'.sid = currentSession[1].sid
                  /\ exportLog'.rpp # "none" /\ exportLog'.lof # "none"
             ELSE UNCHANGED <<fs, ended, exportLog>> ]_vars

\* C16 witness: the application exited while a session held an active
\* recording; the recording is finalized and the exporters have run.
C16_Witness ==
    /\ status = "quit"
    /\ ~isRecording /\ currentSession = Null
    /\ ended # Null
    /\ ended[1].sid = nSessions
    /\ ended[1].active # {}
    /\ exportLog.sid = nSessions
    /\ exportLog.rpp = "written"
    /\ OpenFiles(fs) = {}

\* C17: the slot calls for the server's signals are handled one at a time in
\* the order the signals were emitted: at most one slot call is in progress,
\* it runs on the recorder's thread and never on a thread of the server, and
\* the calls begin in the order of emission, none left out.
C17_HandlersSerialized ==
    /\ Cardinality(running) <= 1
    /\ \A h \in running : h.thread = "recorder"
    /\ \A i \in 1 .. Len(began) : began[i] = i
    /\ \A i \in 1 .. Len(queue) : queue[i].id = Len(began) + i

\* C17 witness: two slot calls have returned, a third is in progress, and a
\* frame emitted meanwhile waits in the queue behind it.
C17_Witness ==
    /\ Len(began) = 3
    /\ running # {}
    /\ Len(queue) = 1
    /\ queue[1].slot = "OnFrame"

\* The step is a call of SessionDirToReaper.
Converted == offline'.n = offline.n + 1

\* C18: SessionDirToReaper throws and writes no file when its path does not
\* exist or is not a directory; it throws and leaves the existing project
\* file, and every other file, as it was when the project file exists; and
\* whatever its outcome, it leaves the recorder and its session untouched:
\* all it can change is to add the project file to the directory it was
\* given.
C18_SessionDirToReaperGuards ==
    [][ Converted =>
          LET path   == offline'.path
              target == FileName(path, 0, "rpp")
          IN  /\ path \notin DOMAIN fs =>
                    offline'.threw = "nodir" /\ fs' = fs
              /\ (path \in DOMAIN fs /\ target \in DOMAIN fs[path]) =>
                    offline'.threw = "exists" /\ fs' = fs
              /\ offline'.threw # "none" => fs' = fs
              /\ offline'.threw = "none" =>
                    /\ DOMAIN fs' = DOMAIN fs
                    /\ \A d \in DOMAIN fs \ {path} : fs'[d] = fs[d]
                    /\ DOMAIN fs'[path] = DOMAIN fs[path] \cup {target}
                    /\ \A f \in DOMAIN fs[path] : fs'[path][f] = fs[path][f]
              /\ UNCHANGED <<isRecording, currentSession, status, emitted,
                             nSessions, ended, exportLog>> ]_vars

\* C18 witness: with a session recording, a conversion of its directory
\* wrote the project file, and a second conversion of the same directory
\* threw because the file exists.
C18_Witness ==
    /\ isRecording
    /\ offline.n = 2
    /\ offline.threw = "exists"
    /\ offline.path = currentSession[1].sessionDir
    /\ FileName(offline.path, 0, "rpp") \in DOMAIN fs[offline.path]

\* The step handles a frame or a restart request whose call of Start finds
\* that the session directory cannot be set up.
StartFailed ==
    \E d \in DirFaults \ {"ok"} :
       \/ \E c \in ChanIds, p \in FrameParams, t \in Clock, w \in BOOLEAN :
             OnFrameEvent(c, p, t, d, w)
       \/ \E t \in Clock, r \in BOOLEAN, l \in BOOLEAN :
             OnTriggerSessionEvent(t, r, l, d)

\* The recording files with their sample counts.
Recorded(dirs) ==
    { <<d, f, dirs[d][f].samples>> :
         <<d, f>> \in { df \in UNION { {d} \X DOMAIN dirs[d] : d \in DOMAIN dirs } :
                           df[2].ext = "wav" } }

\* C19: when the constructor of the session throws inside Start, the
\* exception leaves the handler that called Start: the recorder is idle with
\* no session (a session it had was ended first), no RecordingSessionStarted
\* signal is emitted, no session is counted, and no recording file is created
\* or written, so the frame that triggered Start is not recorded.
C19_FailedStartLeavesIdle ==
    [][ StartFailed =>
          /\ status' = "exception"
          /\ ~isRecording' /\ currentSession' = Null
          /\ emitted' = emitted
          /\ nSessions' = nSessions
          /\ Recorded(fs') = Recorded(fs)
          /\ isRecording =>
                /\ ended' # Null /\ ended'[1].sid = currentSession[1].sid
                /\ OpenFilesOf(fs', currentSession[1].sid) = {} ]_vars

\* C19 witness: a restart request ended session 1, which held an active
\* recording, and the constructor of the next session threw.
C19_Witness ==
    /\ status = "exception"
    /\ ~isRecording /\ currentSession = Null
    /\ nFrames = 1 /\ nSessions = 1
    /\ Len(emitted) = 1
    /\ ended # Null /\ ended[1].sid = 1 /\ ended[1].active # {}

\* The step handles a frame whose call of CJamSession::Frame is left by the
\* exception of a recording file that cannot be opened.
FrameThrew ==
    /\ nFrames' = nFrames + 1
    /\ lastOp'.op = "OnFrame"
    /\ lastOp'.res = "threw"

\* C20: when the file of a recording cannot be opened while Frame is opening
\* a recording, the exception leaves Frame and its caller; the slot of the
\* channel is empty, no recording file is created or written, the frame
\* counter of the session is what it was (0 for a session started by this
\* frame), and the only other change is that a recording the channel had
\* before is finalized with the frame count it had.
C20_OpenFailureLeavesSlotEmpty ==
    [][ FrameThrew =>
          LET c   == lastOp'.ch
              new == currentSession'[1]
          IN  /\ status' = "exception"
              /\ new.vecptrJamClients[c] = Null
              /\ Recorded(fs') = Recorded(fs)
              /\ \A d \in ChanIds \ {c} :
                    new.vecptrJamClients[d] =
                       IF isRecording THEN currentSession[1].vecptrJamClients[d] ELSE Null
              /\ IF ~isRecording
                 THEN new.currentFrame = 0 /\ new.jamClientConnections = <<>>
                 ELSE LET old == currentSession[1]
                      IN  /\ new.sid = old.sid
                          /\ new.currentFrame = old.currentFrame
                          /\ new.jamClientConnections =
                                IF old.vecptrJamClients[c] = Null
                                THEN old.jamClientConnections
                                ELSE Append(old.jamClientConnections,
                                            CJamClientConnection(old.vecptrJamClients[c][1])) ]_vars

\* C20 witness: a frame with a changed channel count finalized the channel's
\* recording and then could not open the file of the next one.
C20_Witness ==
    /\ status = "exception"
    /\ isRecording /\ currentSession # Null
    /\ lastOp.op = "OnFrame" /\ lastOp.res = "threw"
    /\ currentSession[1].vecptrJamClients[lastOp.ch] = Null
    /\ Len(currentSession[1].jamClientConnections) = 1
    /\ currentSession[1].currentFrame = 2

\* C21: no two sessions constructed by the recorder share a session
\* directory: the directories carried by the RecordingSessionStarted signals,
\* one per session constructed, are pairwise different.
C21_SessionDirsDistinct ==
    \A i \in 1 .. Len(emitted) : \A j \in 1 .. Len(emitted) :
        i # j => emitted[i] # emitted[j]

\* The finalized connections conns that carry name n, in append order, each
\* as the line "file <fileName> offset <startFrame * frame size / 48000>".
LinesOfName(conns, n) ==
    LET Named(c) == c.name = n
        own      == SelectSeq(conns, Named)
    IN  [j \in 1 .. Len(own) |->
            [ file   |-> own[j].fileName,
              offset |-> [num |-> own[j].startFrame * iServerFrameSizeSamples,
                          den |-> 48000] ]]

\* The lines of all names from the i-th on, in the order of the names.
RECURSIVE LinesByName(_, _)
LinesByName(conns, i) ==
    IF i > Len(NameOrder)
    THEN <<>>
    ELSE LinesOfName(conns, NameOrder[i]) \o LinesByName(conns, i + 1)

\* The .lof files of the recording base directory.
LofFiles(dirs) ==
    { df \in UNION { {d} \X DOMAIN dirs[d] : d \in DOMAIN dirs } : df[2].ext = "lof" }

\* C22: the file list written at the end of a session has exactly one line
\* per finalized connection of that session, each with the file of the
\* segment and the offset startFrame * frameSizeSamples / 48000, the tracks in
\* key order and the segments of a track in append order; and it is written
\* at most once: a file list that exists is never written again.
C22_LofOneLinePerConnection ==
    /\ [] ( (ended # Null /\ exportLog.sid = ended[1].sid /\ exportLog.lof = "written") =>
              LET text == fs[ended[1].dir][FileName(ended[1].dir, 0, "lof")].text
              IN  /\ Len(text) = Len(ended[1].conns)
                  /\ text = LinesByName(ended[1].conns, 1) )
    /\ [][ \A df \in LofFiles(fs) :
              df \in LofFiles(fs') /\ fs'[df[1]][df[2]] = fs[df[1]][df[2]] ]_vars

\* C22 witness: a session ended with two finalized connections under one
\* name and one under another, and its file list was written.
C22_Witness ==
    /\ ended # Null
    /\ exportLog.sid = ended[1].sid /\ exportLog.lof = "written"
    /\ Len(ended[1].conns) = 3
    /\ ended[1].conns[1].name = "Bob"
    /\ ended[1].conns[2].name = "Alice"
    /\ ended[1].conns[3].name = "Bob"

\* The step handles a frame for channel c with parameters p, and no
\* exception leaves the handler.
FrameStepWith(c, p) ==
    /\ nFrames' = nFrames + 1
    /\ status' = "running"
    /\ lastOp'.op = "OnFrame" /\ lastOp'.ch = c /\ lastOp'.nch = p.nch
    /\ \E t \in Clock, d \in DirFaults, w \in BOOLEAN : OnFrameEvent(c, p, t, d, w)

\* C23: a frame for an occupied slot whose channel count, host or port
\* differs from the active recording's finalizes that recording - exactly one
\* connection is appended, with the old recording's channel count, start
\* frame and frame count - and then, when the new channel count is not zero,
\* the slot holds a fresh recording that has received this frame, and when it
\* is zero the slot is empty.
C23_IdentityChangeReplaces ==
    [][ \A c \in ChanIds, p \in FrameParams :
          ( /\ isRecording
            /\ currentSession[1].vecptrJamClients[c] # Null
            /\ IdentityChanged(currentSession[1].vecptrJamClients[c][1], p.addr, p.nch)
            /\ FrameStepWith(c, p) ) =>
              LET old  == currentSession[1].vecptrJamClients[c][1]
                  new  == currentSession'[1]
                  last == new.jamClientConnections[Len(new.jamClientConnections)]
              IN  /\ Len(new.jamClientConnections) =
                        Len(currentSession[1].jamClientConnections) + 1
                  /\ last.numChannels = old.numChannels
                  /\ last.startFrame = old.startFrame
                  /\ last.length = old.frameCount
                  /\ IF p.nch = 0
                     THEN new.vecptrJamClients[c] = Null
                     ELSE /\ new.vecptrJamClients[c] # Null
                          /\ new.vecptrJamClients[c][1].numChannels = p.nch
                          /\ new.vecptrJamClients[c][1].address = p.addr
                          /\ new.vecptrJamClients[c][1].frameCount = 1
                          /\ new.vecptrJamClients[c][1].filename # old.filename ]_vars

\* The step opens a recording in slot c: the slot holds a recording that it
\* did not hold before.
OpenedIn(c) ==
    /\ currentSession' # Null
    /\ currentSession'[1].vecptrJamClients[c] # Null
    /\ \/ ~SameSession
       \/ currentSession[1].vecptrJamClients[c] = Null
       \/ currentSession'[1].vecptrJamClients[c][1].filename #
             currentSession[1].vecptrJamClients[c][1].filename

\* C24: every recording opened by CJamSession::Frame, in an empty slot or in
\* place of a recording with other parameters, starts at the value the frame
\* counter of the session had when the call began: the counter of the session
\* before the step, or 0 when the session was constructed for this frame.
C24_OpensAtCurrentFrame ==
    [][ \A c \in ChanIds :
          OpenedIn(c) =>
             /\ nFrames' = nFrames + 1
             /\ lastOp'.op = "OnFrame" /\ lastOp'.ch = c
             /\ currentSession'[1].vecptrJamClients[c][1].startFrame =
                   IF SameSession THEN currentSession[1].currentFrame ELSE 0 ]_vars

\* C24 witness: a frame with changed parameters has replaced a recording
\* when the counter was 2, and the new recording starts at 2.
C24_Witness ==
    /\ isRecording
    /\ lastOp.op = "OnFrame" /\ lastOp.res = "reopened"
    /\ currentSession[1].vecptrJamClients[lastOp.ch] # Null
    /\ currentSession[1].vecptrJamClients[lastOp.ch][1].startFrame = 2
    /\ currentSession[1].vecptrJamClients[lastOp.ch][1].frameCount = 1
    /\ currentSession[1].currentFrame = 3

\* The step ends the session the recorder had: OnEnd, Start or OnAboutToQuit
\* has called End on it and deleted it.
SessionEndedInStep ==
    /\ isRecording
    /\ status' # "segv"
    /\ ~SameSession

\* The active slots of session S, in slot order from slot i on.
RECURSIVE ActiveFrom(_, _)
ActiveFrom(S, i) ==
    IF i >= MAX_NUM_CHANNELS
    THEN <<>>
    ELSE (IF S.vecptrJamClients[i] # Null THEN <<S.vecptrJamClients[i][1]>> ELSE <<>>)
         \o ActiveFrom(S, i + 1)

\* C25: End finalizes every active slot and skips the empty ones: applied to
\* the session that a step ends, it leaves every slot empty and the frame
\* counter unchanged, and the list of finalized connections is the list before
\* the call followed by one connection for each slot that was active, in slot
\* order; that list is the one the session ends with, and no file of the
\* session stays open.
C25_EndFinalizesActiveSlots ==
    [][ SessionEndedInStep =>
          LET S      == currentSession[1]
              fin    == End(S, fs[S.sessionDir], 0)
              active == ActiveFrom(S, 0)
          IN  /\ \A c \in ChanIds : fin.S.vecptrJamClients[c] = Null
              /\ fin.S.currentFrame = S.currentFrame
              /\ Len(fin.S.jamClientConnections) =
                    Len(S.jamClientConnections)
                    + Cardinality({c \in ChanIds : S.vecptrJamClients[c] # Null})
              /\ fin.S.jamClientConnections =
                    S.jamClientConnections
                    \o [j \in 1 .. Len(active) |-> CJamClientConnection(active[j])]
              /\ ended' # Null
              /\ ended'[1].sid = S.sid
              /\ ended'[1].conns = fin.S.jamClientConnections
              /\ OpenFilesOf(fs', S.sid) = {} ]_vars

\* C25 witness: a session ended with slot 0 empty, its recording finalized
\* earlier by a disconnect, and slot 1 active, finalized by End.
C25_Witness ==
    /\ ended # Null
    /\ ended[1].active = {1}
    /\ Len(ended[1].conns) = 2
    /\ ended[1].conns[1].length = 1
    /\ ended[1].conns[2].length = 2
    /\ ~isRecording

\* The track map `tracks` groups the finalized connections conns by the name
\* each carries: its keys are the names of the connections, and the list of
\* a key is made of the connections with that name, all of them, in the
\* order they were appended.
GroupedByName(tracks, conns) ==
    /\ DOMAIN tracks = {conns[j].name : j \in 1 .. Len(conns)}
    /\ \A k \in DOMAIN tracks :
          LET Named(c) == c.name = k
              own      == SelectSeq(conns, Named)
          IN  tracks[k] = [j \in 1 .. Len(own) |->
                             STrackItem(own[j].numChannels, own[j].startFrame,
                                        own[j].length, own[j].fileName)]

\* C26: Tracks () groups the finalized connections by the name each carried
\* when it was finalized: every connection is in the list of exactly one
\* key, its name, in append order within the list, so segments finalized under
\* different names are under different keys. This holds for the track map of
\* the session at work and for the one the exporters of the last ended
\* session were given.
C26_TracksGroupByName ==
    /\ currentSession # Null =>
          GroupedByName(Tracks(currentSession[1]),
                        currentSession[1].jamClientConnections)
    /\ ended # Null => GroupedByName(ended[1].tracks, ended[1].conns)

\* C26 witness: two recordings of channel 0 were finalized one after the
\* other, the first under the name Alice and the second under the name Bob;
\* Tracks () has two keys.
C26_Witness ==
    /\ currentSession # Null
    /\ Len(currentSession[1].jamClientConnections) = 2
    /\ currentSession[1].nDisconnect[0] = 2
    /\ currentSession[1].jamClientConnections[1].name = "Alice"
    /\ currentSession[1].jamClientConnections[2].name = "Bob"
    /\ DOMAIN Tracks(currentSession[1]) = {"Alice", "Bob"}

\* The recordings in the slots of session S have open files of their own: the
\* file of each is in the session directory and not finalized, no two slots
\* hold the same file, and no file of a finalized connection is in a slot.
SlotsHoldOpenFiles(S, files) ==
    /\ \A c \in ChanIds :
          S.vecptrJamClients[c] # Null =>
             /\ S.vecptrJamClients[c][1].filename \in DOMAIN files
             /\ ~files[S.vecptrJamClients[c][1].filename].finalised
             /\ \A d \in ChanIds \ {c} :
                   S.vecptrJamClients[d] # Null =>
                      S.vecptrJamClients[d][1].filename # S.vecptrJamClients[c][1].filename
    /\ \A j \in 1 .. Len(S.jamClientConnections) :
          /\ S.jamClientConnections[j].fileName \in DOMAIN files
          /\ files[S.jamClientConnections[j].fileName].finalised
          /\ \A c \in ChanIds :
                S.vecptrJamClients[c] # Null =>
                   S.vecptrJamClients[c][1].filename # S.jamClientConnections[j].fileName

\* C27: finalization is atomic. In every state between two handlers each
\* slot holds at most one recording, with an open file of its own, and a
\* recording that was finalized, its file closed, is in no slot; so no step
\* writes to the file of a finalized recording.
C27_FinalizationAtomic ==
    /\ [] ( currentSession # Null =>
               SlotsHoldOpenFiles(currentSession[1],
                                  fs[currentSession[1].sessionDir]) )
    /\ [][ \A d \in DOMAIN fs : \A f \in DOMAIN fs[d] :
              (f.ext = "wav" /\ fs[d][f].finalised) =>
                 d \in DOMAIN fs' /\ f \in DOMAIN fs'[d] /\ fs'[d][f] = fs[d][f] ]_vars

\* C27 witness: the first recording of channel 0 was finalized with one
\* frame and the channel's slot holds a second recording, which has received
\* a frame, with an open file.
C27_Witness ==
    /\ currentSession # Null
    /\ currentSession[1].nDisconnect[0] = 1
    /\ Len(currentSession[1].jamClientConnections) = 1
    /\ currentSession[1].jamClientConnections[1].length = 1
    /\ currentSession[1].vecptrJamClients[0] # Null
    /\ currentSession[1].vecptrJamClients[0][1].frameCount = 1
    /\ fs[currentSession[1].sessionDir]
         [currentSession[1].jamClientConnections[1].fileName].finalised

\* The list new is the list old with entries appended.
Extends(new, old) ==
    /\ Len(new) >= Len(old)
    /\ \A j \in 1 .. Len(old) : new[j] = old[j]

\* C28: the list of finalized connections of a session is append-only. While
\* the session lives every step leaves the entries it had in place and
\* unchanged, and each entry that a step appends is the connection of a
\* recording that was in a slot before the step, is there no more, and whose
\* file is finalized; the list a session ends with extends the list it had.
C28_ConnectionsAppendOnly ==
    [][ /\ SameSession =>
           LET old == currentSession[1]
               new == currentSession'[1]
           IN  /\ Extends(new.jamClientConnections, old.jamClientConnections)
               /\ \A j \in (Len(old.jamClientConnections) + 1) ..
                             Len(new.jamClientConnections) :
                     \E c \in ChanIds :
                        /\ old.vecptrJamClients[c] # Null
                        /\ new.jamClientConnections[j] =
                              CJamClientConnection(old.vecptrJamClients[c][1])
                        /\ new.vecptrJamClients[c] # old.vecptrJamClients[c]
                        /\ fs'[new.sessionDir][new.jamClientConnections[j].fileName].finalised
        /\ SessionEndedInStep =>
              Extends(ended'[1].conns, currentSession[1].jamClientConnections) ]_vars

\* C28 witness: the list of the session at work has grown twice, by two
\* disconnects, and a frame was handled after that.
C28_Witness ==
    /\ currentSession # Null
    /\ Len(currentSession[1].jamClientConnections) = 2
    /\ currentSession[1].nDisconnect[0] = 1
    /\ currentSession[1].nDisconnect[1] = 1
    /\ lastOp.op = "OnFrame"
    /\ nFrames = 3

\* C29: CJamClient::Frame appends exactly numChannels * frame size samples
\* to the file, the first ones of the vector in the order of the vector,
\* stores the given name and raises the frame count by exactly 1; so the
\* connection made of the recording carries as its length the number of
\* frames that were fed, and the file holds that many times numChannels *
\* frame size samples.
C29_FrameAppendsSamples ==
    [][ /\ wave.client # Null =>
             \A _name \in Names :
             \A pcm \in PcmVectors(wave.client[1].numChannels * wave.frameSize) :
                FeedData(_name, pcm) =>
                   LET n == wave.client[1].numChannels * wave.frameSize
                   IN  /\ Len(wave'.content) = Len(wave.content) + n
                       /\ wave'.content = wave.content \o SubSeq(pcm, 1, n)
                       /\ wave'.client[1].name = _name
                       /\ wave'.client[1].frameCount = wave.client[1].frameCount + 1
                       /\ wave'.client[1].frameCount = wave'.fed
        /\ FinalizeData =>
              /\ wave'.conn[1].length = wave.fed
              /\ wave'.conn[1].name = wave.client[1].name
              /\ Len(wave'.content) =
                    wave.fed * wave.client[1].numChannels * wave.frameSize ]_vars

\* C29 witness: a 2-channel recording with frames of 2 samples was fed two
\* frames under two names and then finalized; its file holds 8 samples.
C29_Witness ==
    /\ wave.conn # Null
    /\ wave.fed = 2
    /\ wave.conn[1].length = 2
    /\ wave.conn[1].numChannels = 2
    /\ wave.conn[1].name = "Bob"
    /\ wave.content = <<0, 1, 1, 0, 1, 1, 0, 0>>

\* The frames a raw recording holds: its samples are whole frames of
\* numChannels * iServerFrameSizeSamples samples each.
FramesHeld(file, numChannels) ==
    file.samples \div (numChannels * iServerFrameSizeSamples)

\* C30: for every raw recording of a directory that holds n whole frames of
\* 16-bit samples, the segment TracksFromSessionDir makes of it has the
\* length n: the size of the file in bytes divided by channel count, frame
\* size and the sample width of 2 bytes.
C30_LengthFromFileSize ==
    \A d \in DOMAIN fs :
        LET tracks == TracksFromSessionDir(fs[d])
        IN  \A k \in DOMAIN tracks : \A i \in 1 .. Len(tracks[k]) :
                LET item == tracks[k][i]
                    file == fs[d][item.fileName]
                IN  file.samples % (item.numAudioChannels * iServerFrameSizeSamples) = 0
                    => /\ item.frameCount =
                              FileSize(file) \div
                                  (item.numAudioChannels * iServerFrameSizeSamples * 2)
                       /\ item.frameCount = FramesHeld(file, item.numAudioChannels)

\* The frame a recording or a connection has reached: its start frame plus
\* the number of frames it holds.
ReachedBy(startFrame, count) == startFrame + count

\* C31: in every state of a session no recording is ahead of the frame
\* counter: every active recording has startFrame + frameCount <=
\* currentFrame and every finalized connection has startFrame + length <=
\* currentFrame.
C31_NoClientAheadOfCounter ==
    currentSession # Null =>
        LET S == currentSession[1]
        IN  /\ \A c \in ChanIds :
                  S.vecptrJamClients[c] # Null =>
                      ReachedBy(S.vecptrJamClients[c][1].startFrame,
                                S.vecptrJamClients[c][1].frameCount) <= S.currentFrame
            /\ \A i \in 1 .. Len(S.jamClientConnections) :
                  ReachedBy(S.jamClientConnections[i].startFrame,
                            S.jamClientConnections[i].length) <= S.currentFrame

\* C31 witness: a session with a recording that has reached the counter, a
\* recording that lags behind it, and a finalized connection.
C31_Witness ==
    /\ currentSession # Null
    /\ currentSession[1].currentFrame = 2
    /\ currentSession[1].jamClientConnections # <<>>
    /\ \E c \in ChanIds :
          /\ currentSession[1].vecptrJamClients[c] # Null
          /\ currentSession[1].vecptrJamClients[c][1].startFrame = 1
          /\ currentSession[1].vecptrJamClients[c][1].frameCount = 1
    /\ \E i \in 1 .. Len(currentSession[1].jamClientConnections) :
          ReachedBy(currentSession[1].jamClientConnections[i].startFrame,
                    currentSession[1].jamClientConnections[i].length) < 2

\* The recordings session S has opened and still knows: the start frame and
\* the file name of every active recording and every finalized connection.
RecordingsOf(S) ==
    { [startFrame |-> S.vecptrJamClients[c][1].startFrame,
       fileName   |-> S.vecptrJamClients[c][1].filename] :
          c \in {d \in ChanIds : S.vecptrJamClients[d] # Null} }
    \cup { [startFrame |-> S.jamClientConnections[i].startFrame,
            fileName   |-> S.jamClientConnections[i].fileName] :
              i \in 1 .. Len(S.jamClientConnections) }

\* C32: a call of CJamSession::Frame that opens a recording leaves the frame
\* counter above that recording's start frame, so the recording starts later
\* than every recording the session opened before it, and its base file name
\* (name, start frame, channel count) differs from theirs.
C32_OpeningsStrictlyIncrease ==
    [][ \A c \in ChanIds :
          OpenedIn(c) =>
             LET new    == currentSession'[1].vecptrJamClients[c][1]
                 before == IF SameSession THEN RecordingsOf(currentSession[1]) ELSE {}
             IN  /\ currentSession'[1].currentFrame > new.startFrame
                 /\ \A r \in before :
                       /\ r.startFrame < new.startFrame
                       /\ r.fileName.stem # new.filename.stem ]_vars

\* C32 witness: a session that has opened three recordings, the last of them
\* with the name and channel count of an earlier, finalized one.
C32_Witness ==
    /\ currentSession # Null
    /\ Cardinality(RecordingsOf(currentSession[1])) = 3
    /\ lastOp.op = "OnFrame" /\ lastOp.res = "opened"
    /\ \E i \in 1 .. Len(currentSession[1].jamClientConnections) :
          LET conn == currentSession[1].jamClientConnections[i]
              now1 == currentSession[1].vecptrJamClients[lastOp.ch][1]
          IN  /\ conn.fileName.stem[1] = now1.filename.stem[1]
              /\ conn.fileName.stem[3] = now1.filename.stem[3]
              /\ conn.startFrame < now1.startFrame

ZeroChannelFrameFor(c) ==
    /\ nFrames' = nFrames + 1
    /\ status' = "running"
    /\ lastOp'.op = "OnFrame" /\ lastOp'.ch = c /\ lastOp'.nch = 0
    /\ lastOp'.res # "stale"

C34_FrameAfterChangeRecorded ==
    [][ \A c \in ChanIds, p \in FrameParams :
          ( /\ isRecording
            /\ lastOp.op = "OnFrame" /\ lastOp.ch = c /\ lastOp.res = "reopened"
            /\ ~IdentityChanged(currentSession[1].vecptrJamClients[c][1], p.addr, p.nch)
            /\ FrameStepWith(c, p) ) =>
              /\ currentSession'[1].vecptrJamClients[c] # Null
              /\ currentSession'[1].vecptrJamClients[c][1].filename =
                    currentSession[1].vecptrJamClients[c][1].filename
              /\ currentSession'[1].vecptrJamClients[c][1].frameCount =
                    currentSession[1].vecptrJamClients[c][1].frameCount + 1
              /\ currentSession'[1].nDropped = currentSession[1].nDropped ]_vars

\* C35 as stated: after a disconnect event finalized the recording in slot c,
\* the next frame for c is dropped as stale, also when frames or
\* DisconnectClient calls for other channels were handled in between.
C35_DroppedDespiteOthers ==
    [][ \A c \in ChanIds :
          (afterDisc[c] \in {1, 3} /\ FrameStepFor(c)) =>
              /\ lastOp'.res = "stale"
              /\ currentSession'[1].nDropped[c] = currentSession[1].nDropped[c] + 1 ]_vars

\* C35 amended: after a disconnect event finalized the recording in slot c,
\* a frame for another channel that finalizes nothing leaves the marker at
\* c, and the next frame for c is then dropped as stale; but once
\* DisconnectClient has run for another channel in between, the marker no
\* longer names c and the next frame for c is not dropped: it opens a
\* recording in slot c.
C35_DroppedUnlessOtherDisconnect ==
    [][ \A c \in ChanIds :
          /\ \A d \in ChanIds \ {c} :
                ( /\ afterDisc[c] = 1
                  /\ FrameStepFor(d)
                  /\ currentSession'[1].nDisconnect = currentSession[1].nDisconnect ) =>
                    /\ lastOp'.res # "stale"
                    /\ currentSession'[1].chIdDisconnected = c
                    /\ afterDisc'[c] = 1
          /\ (afterDisc[c] = 1 /\ FrameStepFor(c)) =>
                /\ lastOp'.res = "stale"
                /\ currentSession'[1].nDropped[c] = currentSession[1].nDropped[c] + 1
          /\ (afterDisc[c] = 3 /\ FrameStepFor(c) /\ status' = "running") =>
                /\ currentSession[1].chIdDisconnected # c
                /\ lastOp'.res = "opened"
                /\ currentSession'[1].nDropped = currentSession[1].nDropped
                /\ currentSession'[1].vecptrJamClients[c] # Null ]_vars

\* C35 witness: channel c was disconnected after one frame, a frame then
\* opened a recording for the other channel, and the frame for c that
\* followed has just been dropped.
C35_Witness ==
    /\ currentSession # Null
    /\ lastOp.op = "OnFrame" /\ lastOp.res = "stale"
    /\ currentSession[1].nDropped[lastOp.ch] = 1
    /\ currentSession[1].vecptrJamClients[lastOp.ch] = Null
    /\ Len(currentSession[1].jamClientConnections) = 1
    /\ currentSession[1].jamClientConnections[1].length = 1
    /\ \E d \in ChanIds \ {lastOp.ch} :
          /\ currentSession[1].vecptrJamClients[d] # Null
          /\ currentSession[1].vecptrJamClients[d][1].startFrame = 1
          /\ currentSession[1].vecptrJamClients[d][1].frameCount = 1

\* The step handles the first frame for channel c of a session: the session
\* was constructed for this frame, or it has not yet had a recording for c.
FirstFrameFor(c) ==
    /\ nFrames' = nFrames + 1
    /\ status' = "running"
    /\ lastOp'.op = "OnFrame" /\ lastOp'.ch = c
    /\ SameSession =>
          /\ currentSession[1].vecptrJamClients[c] = Null
          /\ currentSession[1].nDisconnect[c] = 0

\* C36: the just-disconnected marker belongs to its session. A session is
\* constructed with the marker unset, and the marker names channel c only
\* after DisconnectClient has run for c in this session; so the first frame
\* for c in a session - whatever was disconnected in the session before it -
\* is not dropped but opens a recording that holds it, and a disconnect event
\* handled while idle leaves the recorder without session and sets no marker.
C36_MarkerEndsWithSession ==
    /\ [](currentSession # Null =>
             \A c \in ChanIds :
                 currentSession[1].chIdDisconnected = c =>
                     currentSession[1].nDisconnect[c] >= 1)
    /\ [][ /\ (currentSession' # Null /\ ~SameSession /\ nFrames' = nFrames) =>
                 currentSession'[1].chIdDisconnected = -1
           /\ \A c \in ChanIds :
                 FirstFrameFor(c) =>
                    /\ lastOp'.res = "opened"
                    /\ currentSession'[1].nDropped[c] = 0
                    /\ currentSession'[1].vecptrJamClients[c] # Null
                    /\ currentSession'[1].vecptrJamClients[c][1].frameCount = 1
           /\ (currentSession = Null /\ nFrames' = nFrames) =>
                 currentSession' = Null ]_vars

\* C36 witness: a session that finalized its only recording on a disconnect
\* event has ended, and in the session after it the first frame has opened a
\* recording.
C36_Witness ==
    /\ ended # Null
    /\ ended[1].active = {}
    /\ Len(ended[1].conns) = 1
    /\ currentSession # Null
    /\ currentSession[1].sid = ended[1].sid + 1
    /\ nFrames = 2
    /\ lastOp.op = "OnFrame" /\ lastOp.res = "opened"
    /\ currentSession[1].chIdDisconnected = -1
    /\ currentSession[1].vecptrJamClients[lastOp.ch] # Null
    /\ currentSession[1].vecptrJamClients[lastOp.ch][1].frameCount = 1

\* C37: between handlers the recorder is recording exactly when it owns a
\* session: isRecording is true if and only if currentSession is not null,
\* after every sequence of frame, disconnect, restart, stop and quit events,
\* those in which the construction of a session or the opening of a file
\* failed included.
C37_RecordingIffSession ==
    isRecording <=> (currentSession # Null)

\* C37 witness: the recorder has had a session, and the construction of the
\* next one has failed: it is idle and owns no session.
C37_Witness ==
    /\ status = "exception"
    /\ nSessions = 1
    /\ ended # Null
    /\ nFaults = 1
    /\ ~isRecording
    /\ currentSession = Null

\* The recordings session sid has opened in directory dir so far: each
\* construction of a CJamClient creates one WAV file there.
OpenedBy(dirs, dir, sid) ==
    {f \in DOMAIN dirs[dir] : dirs[dir][f].kind = "wav" /\ dirs[dir][f].by = sid}

\* The places <key, index> of the items of a track map.
ItemsOf(tracks) ==
    UNION { {<<k, i>> : i \in 1 .. Len(tracks[k])} : k \in DOMAIN tracks }

\* C38: no recording is lost or duplicated. In a session the recordings
\* opened so far are as many as the active slots plus the finalized
\* connections, and each of them is the file of exactly one active slot or
\* finalized connection. In the session the exporters ran for, every
\* recording the session opened is the file of exactly one item of Tracks (),
\* and every item of Tracks () is one of them.
C38_NoRecordingLostOrDuplicated ==
    /\ currentSession # Null =>
          LET S      == currentSession[1]
              opened == OpenedBy(fs, S.sessionDir, S.sid)
              active == {c \in ChanIds : S.vecptrJamClients[c] # Null}
              conns  == 1 .. Len(S.jamClientConnections)
          IN  /\ Cardinality(opened) = Cardinality(active) + Len(S.jamClientConnections)
              /\ \A f \in opened :
                    Cardinality({c \in active : S.vecptrJamClients[c][1].filename = f})
                    + Cardinality({i \in conns : S.jamClientConnections[i].fileName = f})
                    = 1
    /\ ended # Null =>
          LET opened == OpenedBy(fs, ended[1].dir, ended[1].sid)
              items  == ItemsOf(ended[1].tracks)
          IN  /\ Cardinality(items) = Cardinality(opened)
              /\ \A f \in opened :
                    Cardinality({x \in items :
                                    ended[1].tracks[x[1]][x[2]].fileName = f}) = 1

\* C38 witness: a session has ended that opened three recordings, two of
\* them finalized before the end and one by the end of the session, and its
\* track map holds the three under two names.
C38_Witness ==
    /\ ended # Null
    /\ Cardinality(OpenedBy(fs, ended[1].dir, ended[1].sid)) = 3
    /\ Cardinality(ended[1].active) = 1
    /\ Cardinality(ItemsOf(ended[1].tracks)) = 3
    /\ Cardinality(DOMAIN ended[1].tracks) = 2

\* The step is a disconnect event for channel c handled by the current
\* session.
DisconnectStepFor(c) ==
    /\ nFrames' = nFrames
    /\ lastOp'.op = "OnDisconnected"
    /\ lastOp'.ch = c
    /\ SameSession

\* C39: CJamSession::Frame and CJamSession::DisconnectClient for channel c
\* leave every other slot d as it was - empty, or with the same recording,
\* its start frame, frame count, name and file - and DisconnectClient leaves
\* the frame counter as it was. A frame that starts a session finds every
\* other slot empty and leaves it so.
C39_OtherChannelsUntouched ==
    [][ \A c \in ChanIds :
          /\ (FrameStepFor(c) \/ DisconnectStepFor(c)) =>
                \A d \in ChanIds \ {c} :
                    currentSession'[1].vecptrJamClients[d] =
                        currentSession[1].vecptrJamClients[d]
          /\ DisconnectStepFor(c) =>
                currentSession'[1].currentFrame = currentSession[1].currentFrame
          /\ ( /\ nFrames' = nFrames + 1
               /\ lastOp'.op = "OnFrame" /\ lastOp'.ch = c
               /\ ~SameSession ) =>
                \A d \in ChanIds \ {c} : currentSession'[1].vecptrJamClients[d] = Null ]_vars

\* C39 witness: a disconnect event has finalized the recording of one channel
\* while the other channel holds a recording of two frames.
C39_Witness ==
    /\ currentSession # Null
    /\ lastOp.op = "OnDisconnected" /\ lastOp.res = "disconnected"
    /\ currentSession[1].vecptrJamClients[lastOp.ch] = Null
    /\ currentSession[1].currentFrame = 2
    /\ \E d \in ChanIds \ {lastOp.ch} :
          /\ currentSession[1].vecptrJamClients[d] # Null
          /\ currentSession[1].vecptrJamClients[d][1].frameCount = 2

\* C40: a frame for an occupied slot whose name differs from the active
\* recording's while channel count, host and port are the same finalizes
\* nothing and opens nothing: the slot holds the same recording with one
\* frame more and the new name, its file name is the one it was opened with,
\* and the connection made of it when it is finalized carries the name of
\* the last frame and that file name.
C40_RenameKeepsRecording ==
    [][ /\ \A c \in ChanIds, p \in FrameParams :
             ( /\ isRecording
               /\ currentSession[1].vecptrJamClients[c] # Null
               /\ ~IdentityChanged(currentSession[1].vecptrJamClients[c][1], p.addr, p.nch)
               /\ p.name # currentSession[1].vecptrJamClients[c][1].name
               /\ FrameStepWith(c, p) ) =>
                 /\ currentSession'[1].vecptrJamClients[c] =
                       Some([currentSession[1].vecptrJamClients[c][1] EXCEPT
                                !.name = p.name, !.frameCount = @ + 1])
                 /\ currentSession'[1].jamClientConnections =
                       currentSession[1].jamClientConnections
                 /\ \A d \in DOMAIN fs' : DOMAIN fs'[d] = DOMAIN fs[d]
        /\ \A c \in ChanIds :
             ( /\ SameSession
               /\ currentSession[1].vecptrJamClients[c] # Null
               /\ currentSession'[1].vecptrJamClients[c] = Null ) =>
                 LET conns == currentSession'[1].jamClientConnections
                     old   == currentSession[1].vecptrJamClients[c][1]
                 IN  /\ conns[Len(conns)].name = old.name
                     /\ conns[Len(conns)].fileName = old.filename ]_vars

====
